---- MODULE Spec2Model ----
(***************************************************************************)
(* Model of the gridctl gateway: the workflow DAG executor                 *)
(* (pkg/registry/executor.go), the pipe-style southbound clients and the   *)
(* agent access-control filter of the MCP gateway.                         *)
(***************************************************************************)
EXTENDS Integers, Sequences, FiniteSets, TLC

VARIABLES
    \* ---- workflow executor (Executor.Execute) ----
    skill,        \* skill.Workflow: the sequence of WorkflowStep
    epc,          \* position of Execute: "loop" | "wait" | "done"
    levelIdx,     \* index of the DAG level being run (0-based, as in the code)
    stepMap,      \* safeStepMap.m : step id -> StepResult
    skipped,      \* safeSkipMap.m : step id -> reason
    stepResults,  \* []StepExecutionResult accumulated so far
    executable,   \* the executable steps of the current level
    outputs,      \* outputs[idx] written by the step goroutines
    gstate,       \* per step goroutine: "none" | "spawned" | "running" | "done"
    sem,          \* tokens held in the per-level semaphore
    seen,         \* step id -> the TemplateContext snapshot the step was given
    status,       \* the local variable status of Execute
    cancelled,    \* ctx.Err() != nil
    ret,          \* what Execute returned
    calls,        \* the tools invoked through the ToolCaller, in order
    \* ---- pipe-style southbound client (StdioClient / ProcessClient) ----
    requestID,    \* the last request id stamped by the writer
    responses,    \* pending map: request id -> the caller whose channel it holds
    respCh,       \* per call: content of its one-shot buffered completion channel
    callState,    \* per call: "idle" | "registered" | "waiting" | "returned"
    callID,       \* per call: the id its request was stamped with (0: none)
    callResult,   \* per call: what call() returned
    writerLock,   \* the call holding the writer lock (0: free)
    stdout,       \* lines written by the southbound peer and not yet read
    stdoutClosed, \* the southbound stream has been closed (EOF after the lines)
    served,       \* request ids the peer has received
    replied,      \* request ids the peer has answered
    junk,         \* lines written by the peer that answer no request
    reader,       \* the reader task: "running" | "exited"
    readerCtxDone,\* the reader's context has been cancelled
    readFailed,   \* the stream reported a read error
    exitCause,    \* why the reader exited: "" | "eof" | "error" | "cancel"
    \* ---- gateway: agent access control ----
    agentSelectors, \* the selectors registered for RegisteredAgent
    sessionAgent,   \* SSESession.AgentName of the session
    request,        \* the JSON-RPC request handled last
    response,       \* the JSON-RPC response written for it
    routed,         \* the client and the tool the last tools/call was forwarded to
    \* ---- one step under executeStepFull / executeStepWithRetry ----
    rstep,        \* the WorkflowStep: id, on_error, retry block, whether its args resolve
    rpc,          \* position in the retry loop: "call" | "calling" | "select" | "returned"
    attempt,      \* the loop variable attempt
    lastErr,      \* the loop variable lastErr
    rctxDone,     \* the outer context is cancelled
    rsel,         \* the select of the backoff wait: "" (blocked) | "ctx" | "timer"
    rwaitCancelled, \* the context was already cancelled when the wait was entered
    rcalls,       \* the CallTool invocations made for the step
    routcomes,    \* how each attempt ended: "ok" | "err" | "isError" | "resolve"
    rret,         \* what executeStepWithRetry returned
    rout,         \* what executeStepFull returned
    \* ---- Execute: the checks before the first level, nested skill calls ----
    ewf,          \* Workflow of the skill "s0"
    einputs,      \* Inputs of the skill "s0": input name -> how it is declared
    eargs,        \* the arguments "s0" is called with: the input names provided
    frames,       \* the skills being executed, outermost first (the call stack in ctx)
    elast,        \* the last thing that happened: an Execute call or a tool call
    \* ---- SSE sessions and their paired POST path ----
    sessions,     \* ids of the registered SSE sessions
    stream,       \* session id -> the events written on its SSE stream so far
    post,         \* the HTTP response to the last POST answered on the message path
    posts,        \* the POSTs accepted on the message paths, in the order they arrived
    inflight,     \* the POSTs being handled: their positions in posts
    written,      \* session id -> the POSTs whose replies are on its stream, in stream order
    direct,       \* the HTTP response to the last POST on the direct path
    \* ---- Router: one client and its tool, calls by prefixed name ----
    rclient,      \* the name of the registered client
    rtool,        \* the name of its tool
    rcall,        \* the last call_tool: the name called, what was forwarded, the result
    rcount,       \* how many calls the router received and how many the client received
    \* ---- Registry server: the skill store behind tools and prompts ----
    store,        \* skill name -> the stored skill, << >> if there is none
    executor,     \* whether the registry server was given a workflow executor
    reg,          \* the last operation on the registry server and what it returned
    \* ---- Merged workflow output (Executor.assembleOutputMerged) ----
    mskill,       \* the skill: Workflow (step ids as declared) and Output.Include
    msteps,       \* tmplCtx.Steps: step id -> its StepResult, << >> if none was recorded
    mskipped,     \* the set of skipped step ids
    morder,       \* the step ids in the order in which the steps finished
    mresult,      \* the text of the assembled result, << >> before it is assembled
    \* ---- Transport client: the cached tool list ----
    card,         \* the tool list the peer advertises now
    peerUp,       \* whether the peer can be reached
    ctools,       \* the client's cached tool list (tools())
    cinit,        \* whether the client is initialized
    clast,        \* the last call on the client: its name, its error, the cache before it
    \* ---- Peer-agent adapter: one call_tool ----
    atask,        \* the peer's task as the adapter last saw it, << >> if it saw none
    apc,          \* position of call_tool: "idle" | "polling" | "done" | "failed"
    aresult,      \* the tool result call_tool returned
    \* ---- REST API over the skill store, and the router's client table ----
    registered,   \* whether the router holds the client "registry"
    hpc,          \* per request handler: where it stands, and what HasContent told it
    overlapped    \* whether two requests that change skills were ever handled at once

execVars == <<skill, epc, levelIdx, stepMap, skipped, stepResults, executable,
              outputs, gstate, sem, seen, status, cancelled, ret, calls>>

pipeVars == <<requestID, responses, respCh, callState, callID, callResult, writerLock,
              stdout, stdoutClosed, served, replied, junk, reader, readerCtxDone,
              readFailed, exitCause>>

aclVars == <<agentSelectors, sessionAgent, request, response, routed>>

retryVars == <<rstep, rpc, attempt, lastErr, rctxDone, rsel, rwaitCancelled, rcalls,
               routcomes, rret, rout>>

entryVars == <<ewf, einputs, eargs, frames, elast>>

sseVars == <<sessions, stream, post, posts, inflight, written, direct>>

routerVars == <<rclient, rtool, rcall, rcount>>

registryVars == <<store, executor, reg>>

mergeVars == <<mskill, msteps, mskipped, morder, mresult>>

clientVars == <<card, peerUp, ctools, cinit, clast>>

adapterVars == <<atask, apc, aresult>>

apiVars == <<registered, hpc, overlapped>>

laterVars == <<adapterVars, apiVars>>

vars == <<execVars, pipeVars, aclVars, retryVars, entryVars, sseVars, routerVars, registryVars,
          mergeVars, clientVars, laterVars>>

\* What the actions of one component leave alone.
nonExecVars ==
    <<pipeVars, aclVars, retryVars, entryVars, sseVars, routerVars, registryVars, mergeVars, clientVars,
      laterVars>>
nonPipeVars ==
    <<execVars, aclVars, retryVars, entryVars, sseVars, routerVars, registryVars, mergeVars, clientVars,
      laterVars>>
nonAclVars ==
    <<execVars, pipeVars, retryVars, entryVars, sseVars, routerVars, registryVars, mergeVars, clientVars,
      laterVars>>
nonRetryVars ==
    <<execVars, pipeVars, aclVars, entryVars, sseVars, routerVars, registryVars, mergeVars, clientVars,
      laterVars>>
nonEntryVars ==
    <<execVars, pipeVars, aclVars, retryVars, sseVars, routerVars, registryVars, mergeVars, clientVars,
      laterVars>>
nonRouterVars ==
    <<execVars, pipeVars, aclVars, retryVars, entryVars, sseVars, registryVars, mergeVars, clientVars,
      laterVars>>
nonRegistryVars ==
    <<execVars, pipeVars, aclVars, retryVars, entryVars, sseVars, routerVars, mergeVars,
      clientVars,
      laterVars>>
nonMergeVars ==
    <<execVars, pipeVars, aclVars, retryVars, entryVars, sseVars, routerVars, registryVars,
      clientVars,
      laterVars>>
nonAdapterVars ==
    <<execVars, pipeVars, aclVars, retryVars, entryVars, sseVars, routerVars, registryVars,
      mergeVars, clientVars, apiVars>>
nonApiVars ==
    <<execVars, pipeVars, aclVars, retryVars, entryVars, sseVars, routerVars, executor, reg,
      mergeVars, clientVars, adapterVars>>
nonClientVars ==
    <<execVars, pipeVars, aclVars, retryVars, entryVars, sseVars, routerVars, registryVars,
      mergeVars,
      laterVars>>
nonSseVars ==
    <<execVars, pipeVars, aclVars, retryVars, entryVars, routerVars, registryVars, mergeVars, clientVars,
      laterVars>>

(***************************************************************************)
(* Bounds of the model                                                     *)
(***************************************************************************)
StepIds == <<"a", "b", "c">>
MaxParallel == 2
MaxConditions == 1

IdSet == {StepIds[i] : i \in DOMAIN StepIds}
NumSteps == Len(StepIds)

OnErrorValues == {"", "fail", "skip", "continue"}
ToolOutcomes == {"ok", "err", "isError"}

\* The validated inputs of the run (args of Execute after validateInputs).
Args == [user |-> "Alice"]

EmptyMap == [x \in {} |-> ""]

MapSet(m, k, v) == [x \in (DOMAIN m) \cup {k} |-> IF x = k THEN v ELSE m[x]]

Max(S) == CHOOSE x \in S : \A y \in S : y <= x

(***************************************************************************)
(* Workflows: every step depends only on steps declared before it, so the  *)
(* graph is acyclic and every dependency exists (what planning accepts).   *)
(* A condition, when present, is `steps.<id>.is_error` for a step id.      *)
(***************************************************************************)
Workflows ==
    { [i \in 1..NumSteps |->
          [id |-> StepIds[i], dependsOn |-> d[i], onError |-> p[i], condition |-> c[i]]] :
        d \in { f \in [1..NumSteps -> SUBSET IdSet] :
                  \A i \in 1..NumSteps : f[i] \subseteq {StepIds[j] : j \in 1..(i-1)} },
        p \in [1..NumSteps -> OnErrorValues],
        c \in { f \in [1..NumSteps -> {""} \cup IdSet] :
                  Cardinality({i \in 1..NumSteps : f[i] # ""}) <= MaxConditions } }

StepAt(wf, id) == wf[CHOOSE i \in DOMAIN wf : wf[i].id = id]

(***************************************************************************)
(* DAG planning: level 0 holds the steps without dependencies, level k+1   *)
(* the steps whose dependencies all sit in levels <= k.                    *)
(***************************************************************************)
RECURSIVE LevelOf(_, _)
LevelOf(wf, id) ==
    LET deps == StepAt(wf, id).dependsOn
    IN  IF deps = {} THEN 0 ELSE 1 + Max({LevelOf(wf, d) : d \in deps})

BuildWorkflowDAG(wf) ==
    LET top == Max({LevelOf(wf, wf[i].id) : i \in DOMAIN wf})
    IN  [k \in 1..(top + 1) |-> SelectSeq(wf, LAMBDA st : LevelOf(wf, st.id) = k - 1)]

levels == BuildWorkflowDAG(skill)

(***************************************************************************)
(* Template context and step results                                       *)
(***************************************************************************)
NewStepResult(text, isErr) == [result |-> text, isError |-> isErr]

TemplateContext(inputs, steps) == [inputs |-> inputs, steps |-> steps]

\* safeStepMap.Snapshot: a copy of the map as it is now.
Snapshot(m) == [k \in DOMAIN m |-> m[k]]

\* EvaluateCondition on `steps.<ref>.is_error`: an unknown step id is an
\* evaluation error.
EvaluateCondition(ref, tmplCtx) ==
    IF ref \in DOMAIN tmplCtx.steps
    THEN [err |-> FALSE, value |-> tmplCtx.steps[ref].isError]
    ELSE [err |-> TRUE, value |-> FALSE]

(***************************************************************************)
(* Error policy                                                            *)
(***************************************************************************)
\* (mutant) an unset on_error is treated as "continue" instead of "fail".
resolveErrorPolicyUnsetContinues(step) ==
    CASE step.onError = "skip" -> [policy |-> "skip", halt |-> FALSE]
      [] step.onError = "fail" -> [policy |-> "", halt |-> TRUE]
      [] OTHER -> [policy |-> "continue", halt |-> FALSE]

resolveErrorPolicy(step) ==
    LET policy == IF step.onError = "" THEN "fail" ELSE step.onError
    IN  CASE policy = "skip" -> [policy |-> "skip", halt |-> FALSE]
          [] policy = "continue" -> [policy |-> "continue", halt |-> FALSE]
          [] OTHER -> [policy |-> "", halt |-> TRUE]

DependencyFailed(id) == "dependency '" \o id \o "' failed"

\* buildDependencyGraph: step id -> the ids of the steps that depend on it,
\* in workflow order.
RECURSIVE DependentsFrom(_, _, _)
DependentsFrom(wf, dep, i) ==
    IF i > Len(wf) THEN << >>
    ELSE (IF dep \in wf[i].dependsOn THEN <<wf[i].id>> ELSE << >>)
         \o DependentsFrom(wf, dep, i + 1)

buildDependencyGraph(wf) == [id \in {wf[i].id : i \in DOMAIN wf} |-> DependentsFrom(wf, id, 1)]

\* markTransitiveDependentsSkipped: breadth-first walk over the dependents.
RECURSIVE MarkWalk(_, _, _, _, _)
MarkWalk(queue, visited, reason, depGraph, skp) ==
    IF queue = << >> THEN skp
    ELSE LET current == Head(queue)
         IN  IF current \in visited
             THEN MarkWalk(Tail(queue), visited, reason, depGraph, skp)
             ELSE MarkWalk(Tail(queue) \o depGraph[current], visited \cup {current},
                           reason, depGraph, MapSet(skp, current, reason))

\* (mutant) only the direct dependents are marked, not the transitive ones.
RECURSIVE MarkDirect(_, _, _)
MarkDirect(queue, reason, skp) ==
    IF queue = << >> THEN skp
    ELSE MarkDirect(Tail(queue), reason, MapSet(skp, Head(queue), reason))

markDirectDependentsSkipped(stepID, depGraph, skp) ==
    MarkDirect(depGraph[stepID], DependencyFailed(stepID), skp)

markTransitiveDependentsSkipped(stepID, depGraph, skp) ==
    MarkWalk(depGraph[stepID], {}, DependencyFailed(stepID), depGraph, skp)

(***************************************************************************)
(* One step: executeStepFull split at the tool call                        *)
(***************************************************************************)
StepExecutionResult(id, st, reason, err, lvl) ==
    [id |-> id, status |-> st, skipReason |-> reason, error |-> err, level |-> lvl]

StepOutput(ser, result, policy, halt) ==
    [ser |-> ser, result |-> result, policy |-> policy, halt |-> halt]

\* The zero value of a slot of outputs, as make([]stepOutput, n) leaves it.
ZeroOutput == StepOutput(StepExecutionResult("", "", "", "", 0), << >>, "", FALSE)

CancelledOutput(step, lvl) ==
    StepOutput(StepExecutionResult(step.id, "skipped", "workflow cancelled", "", lvl),
               << >>, "skip", FALSE)

ConditionEvaluation == "condition evaluation"
ConditionFalse == "condition evaluated to false"

\* (mutant) an evaluation error of the condition goes through the step's
\* on_error policy like a tool failure.
ConditionErrorUnderPolicy(step, lvl) ==
    LET ser == StepExecutionResult(step.id, "failed", "", ConditionEvaluation, lvl)
        pol == resolveErrorPolicy(step)
    IN  IF pol.halt THEN StepOutput(ser, << >>, "", TRUE)
        ELSE IF pol.policy = "skip" THEN StepOutput(ser, << >>, "skip", FALSE)
        ELSE StepOutput(ser, <<NewStepResult(ConditionEvaluation, TRUE)>>, "continue", FALSE)

\* Lines 1031-1037: the condition could not be evaluated; the step is failed
\* and halts, whatever its policy.
ConditionError(step, lvl) ==
    StepOutput(StepExecutionResult(step.id, "failed", "", ConditionEvaluation, lvl),
               << >>, "", TRUE)

\* (mutant) the skip of a false condition carries no reason of its own.
ConditionSkipWithoutReason(step, lvl) ==
    StepOutput(StepExecutionResult(step.id, "skipped", "", "", lvl), << >>, "skip", FALSE)

\* Lines 1039-1047: the condition is false; the step is skipped.
ConditionSkip(step, lvl) ==
    StepOutput(StepExecutionResult(step.id, "skipped", ConditionFalse, "", lvl),
               << >>, "skip", FALSE)

\* The part of executeStepFull before the tool call: "call" when the tool is
\* to be invoked, otherwise the finished output.
executeStepFullBegin(step, tmplCtx, lvl) ==
    IF step.condition # ""
    THEN LET c == EvaluateCondition(step.condition, tmplCtx)
         IN  IF c.err
             THEN [call |-> FALSE, out |-> ConditionError(step, lvl)]
             ELSE IF ~c.value
             THEN [call |-> FALSE, out |-> ConditionSkip(step, lvl)]
             ELSE [call |-> TRUE, out |-> CancelledOutput(step, lvl)]
    ELSE [call |-> TRUE, out |-> CancelledOutput(step, lvl)]

\* executeStepWithRetry without a retry block: one attempt; a tool-reported
\* error (isError) is turned into an error like a transport error.
executeStepWithRetry(outcome) ==
    IF outcome = "ok" THEN [err |-> "", text |-> "ok", isError |-> FALSE]
    ELSE [err |-> "step failed after 1 attempts", text |-> "", isError |-> FALSE]

\* The part of executeStepFull after executeStepWithRetry returned r: an error
\* goes through the step's policy, and so does a result that still carries
\* the isError flag; anything else is a success.
executeStepFullResult(step, r, lvl) ==
    LET failure == IF r.err # "" THEN r.err ELSE r.text
    IN  IF r.err # "" \/ r.isError
        THEN LET ser == StepExecutionResult(step.id, "failed", "", failure, lvl)
                 pol == resolveErrorPolicy(step)
             IN  IF pol.halt THEN StepOutput(ser, << >>, "", TRUE)
                 ELSE IF pol.policy = "skip" THEN StepOutput(ser, << >>, "skip", FALSE)
                 ELSE StepOutput(ser, <<NewStepResult(failure, TRUE)>>, "continue", FALSE)
        ELSE StepOutput(StepExecutionResult(step.id, "success", "", "", lvl),
                        <<NewStepResult(r.text, FALSE)>>, "", FALSE)

\* (mutant) under "continue" the error is not stored as a step result.
executeStepFullEndDropsError(step, outcome, lvl) ==
    LET r == executeStepWithRetry(outcome)
    IN  IF r.err # ""
        THEN LET ser == StepExecutionResult(step.id, "failed", "", r.err, lvl)
                 pol == resolveErrorPolicy(step)
             IN  IF pol.halt THEN StepOutput(ser, << >>, "", TRUE)
                 ELSE IF pol.policy = "skip" THEN StepOutput(ser, << >>, "skip", FALSE)
                 ELSE StepOutput(ser, << >>, "continue", FALSE)
        ELSE StepOutput(StepExecutionResult(step.id, "success", "", "", lvl),
                        <<NewStepResult(r.text, FALSE)>>, "", FALSE)

\* The part of executeStepFull after the tool call returned.
executeStepFullEnd(step, outcome, lvl) ==
    executeStepFullResult(step, executeStepWithRetry(outcome), lvl)

(***************************************************************************)
(* Execute: the level loop                                                 *)
(***************************************************************************)
\* outputs[idx] = out, by the goroutine that was started for executable[idx].
StoreOutput(id, out) ==
    [i \in DOMAIN outputs |->
        IF i \in DOMAIN executable /\ executable[i].id = id THEN out ELSE outputs[i]]

\* (mutant) the join returns as soon as one goroutine of the level is done.
LevelJoinedByFirst == \E i \in DOMAIN executable : gstate[executable[i].id] = "done"

\* wg.Wait(): every goroutine of the level has called wg.Done().
LevelJoined == \A i \in DOMAIN executable : gstate[executable[i].id] = "done"

\* (mutant) every step of the level is executable, marked skipped or not.
RECURSIVE PartitionAllExecutable(_, _, _, _)
PartitionAllExecutable(level, i, lvl, acc) ==
    IF i > Len(level) THEN acc
    ELSE PartitionAllExecutable(level, i + 1, lvl, [acc EXCEPT !.ex = Append(@, level[i])])

\* Lines 873-892: split a level into skipped-by-dependency and executable.
RECURSIVE Partition(_, _, _, _)
Partition(level, i, lvl, acc) ==
    IF i > Len(level) THEN acc
    ELSE LET step == level[i]
         IN  IF step.id \in DOMAIN skipped
             THEN Partition(level, i + 1, lvl,
                    [acc EXCEPT !.sr = Append(@, StepExecutionResult(step.id, "skipped", skipped[step.id], "", lvl))])
             ELSE Partition(level, i + 1, lvl, [acc EXCEPT !.ex = Append(@, step)])

\* Lines 967-999: process the outputs of the level in declared order.
ProcessOne(acc, step, out, depGraph) ==
    LET a1 == [acc EXCEPT !.sr = Append(@, out.ser)]
    IN  IF out.halt
        THEN IF ~a1.levelFailed
             THEN [a1 EXCEPT !.levelFailed = TRUE, !.failErr = out.ser.error]
             ELSE a1
        ELSE CASE out.policy = "skip" ->
                    LET reason == IF out.ser.skipReason # "" THEN out.ser.skipReason
                                  ELSE DependencyFailed(step.id)
                    IN  [a1 EXCEPT !.skp = markTransitiveDependentsSkipped(
                                               step.id, depGraph, MapSet(@, step.id, reason))]
               [] out.policy = "continue" ->
                    [a1 EXCEPT !.sm = IF out.result # << >> THEN MapSet(@, step.id, out.result[1]) ELSE @,
                               !.status = "partial"]
               [] OTHER ->
                    [a1 EXCEPT !.sm = IF out.result # << >> THEN MapSet(@, step.id, out.result[1]) ELSE @]

RECURSIVE ProcessOutputs(_, _, _, _, _)
ProcessOutputs(exe, outs, i, depGraph, acc) ==
    IF i > Len(exe) THEN acc
    ELSE ProcessOutputs(exe, outs, i + 1, depGraph, ProcessOne(acc, exe[i], outs[i], depGraph))

\* buildResult: a failed workflow is an error result.
buildResult(st) == [kind |-> "result", status |-> st, isError |-> (st = "failed")]

NoReturn == [kind |-> "none", status |-> "", isError |-> FALSE]
CancelReturn == [kind |-> "error", status |-> "", isError |-> FALSE]

\* What follows one iteration of the level loop: the next iteration, or the
\* output assembly and the return once the last level is behind.
AdvanceLevel(st) ==
    /\ levelIdx' = levelIdx + 1
    /\ IF levelIdx + 1 >= Len(levels)
       THEN /\ epc' = "done"
            /\ ret' = buildResult(st)
       ELSE /\ epc' = "loop"
            /\ ret' = ret

StartLevel ==
    /\ epc = "loop"
    /\ IF cancelled
       THEN /\ epc' = "done"
            /\ ret' = CancelReturn
            /\ UNCHANGED <<levelIdx, stepResults, executable, outputs, gstate>>
       ELSE LET level == levels[levelIdx + 1]
                part == Partition(level, 1, levelIdx, [sr |-> stepResults, ex |-> << >>])
            IN  /\ stepResults' = part.sr
                /\ IF part.ex = << >>
                   THEN /\ AdvanceLevel(status)
                        /\ UNCHANGED <<executable, outputs, gstate>>
                   ELSE /\ executable' = part.ex
                        /\ outputs' = [i \in DOMAIN part.ex |-> ZeroOutput]
                        /\ gstate' = [id \in IdSet |->
                               IF \E i \in DOMAIN part.ex : part.ex[i].id = id
                               THEN "spawned" ELSE gstate[id]]
                        /\ epc' = "wait"
                        /\ UNCHANGED <<levelIdx, ret>>
    /\ UNCHANGED <<skill, stepMap, skipped, sem, seen, status, cancelled, calls>>
    /\ UNCHANGED nonExecVars

\* (mutant) the goroutine does not wait for a semaphore token.
StepBeginWithoutSemaphore(id) ==
    /\ epc = "wait"
    /\ gstate[id] = "spawned"
    /\ LET step == StepAt(skill, id)
       IN  IF cancelled
           THEN /\ outputs' = StoreOutput(id, CancelledOutput(step, levelIdx))
                /\ gstate' = [gstate EXCEPT ![id] = "done"]
                /\ UNCHANGED <<sem, seen, calls>>
           ELSE LET tmplCtx == TemplateContext(Args, Snapshot(stepMap))
                    b == executeStepFullBegin(step, tmplCtx, levelIdx)
                IN  /\ seen' = MapSet(seen, id, tmplCtx)
                    /\ IF b.call
                       THEN /\ calls' = Append(calls, id)
                            /\ gstate' = [gstate EXCEPT ![id] = "running"]
                            /\ sem' = sem + 1
                            /\ UNCHANGED outputs
                       ELSE /\ outputs' = StoreOutput(id, b.out)
                            /\ gstate' = [gstate EXCEPT ![id] = "done"]
                            /\ UNCHANGED <<sem, calls>>
    /\ UNCHANGED <<skill, epc, levelIdx, stepMap, skipped, stepResults, executable,
                   status, cancelled, ret>>
    /\ UNCHANGED nonExecVars

\* The step goroutine up to the tool call: semaphore, cancellation check,
\* template context snapshot, condition.
StepBegin(id) ==
    /\ epc = "wait"
    /\ gstate[id] = "spawned"
    /\ LET step == StepAt(skill, id)
       IN  IF cancelled
           THEN /\ outputs' = StoreOutput(id, CancelledOutput(step, levelIdx))
                /\ gstate' = [gstate EXCEPT ![id] = "done"]
                /\ UNCHANGED <<sem, seen, calls>>
           ELSE /\ sem < MaxParallel
                /\ LET tmplCtx == TemplateContext(Args, Snapshot(stepMap))
                       b == executeStepFullBegin(step, tmplCtx, levelIdx)
                   IN  /\ seen' = MapSet(seen, id, tmplCtx)
                       /\ IF b.call
                          THEN /\ calls' = Append(calls, id)
                               /\ gstate' = [gstate EXCEPT ![id] = "running"]
                               /\ sem' = sem + 1
                               /\ UNCHANGED outputs
                          ELSE /\ outputs' = StoreOutput(id, b.out)
                               /\ gstate' = [gstate EXCEPT ![id] = "done"]
                               /\ UNCHANGED <<sem, calls>>
    /\ UNCHANGED <<skill, epc, levelIdx, stepMap, skipped, stepResults, executable,
                   status, cancelled, ret>>
    /\ UNCHANGED nonExecVars

\* (mutant) the goroutine publishes its result in the shared step map as
\* soon as the tool call returns, as a sequential executor would.
StepEndPublishesResult(id, outcome) ==
    /\ epc = "wait"
    /\ gstate[id] = "running"
    /\ LET out == executeStepFullEnd(StepAt(skill, id), outcome, levelIdx)
       IN  /\ outputs' = StoreOutput(id, out)
           /\ stepMap' = IF out.result # << >> THEN MapSet(stepMap, id, out.result[1]) ELSE stepMap
    /\ gstate' = [gstate EXCEPT ![id] = "done"]
    /\ sem' = sem - 1
    /\ UNCHANGED <<skill, epc, levelIdx, skipped, stepResults, executable,
                   seen, status, cancelled, ret, calls>>
    /\ UNCHANGED nonExecVars

\* The tool call returns; the goroutine stores its output and releases its
\* semaphore token.
StepEnd(id, outcome) ==
    /\ epc = "wait"
    /\ gstate[id] = "running"
    /\ outputs' = StoreOutput(id, executeStepFullEnd(StepAt(skill, id), outcome, levelIdx))
    /\ gstate' = [gstate EXCEPT ![id] = "done"]
    /\ sem' = sem - 1
    /\ UNCHANGED <<skill, epc, levelIdx, stepMap, skipped, stepResults, executable,
                   seen, status, cancelled, ret, calls>>
    /\ UNCHANGED nonExecVars

\* wg.Wait() returned: process the outputs, then halt or go to the next level.
JoinLevel ==
    /\ epc = "wait"
    /\ LevelJoined
    /\ LET acc == ProcessOutputs(executable, outputs, 1, buildDependencyGraph(skill),
                     [sr |-> stepResults, skp |-> skipped, sm |-> stepMap,
                      status |-> status, levelFailed |-> FALSE, failErr |-> ""])
       IN  /\ stepResults' = acc.sr
           /\ skipped' = acc.skp
           /\ stepMap' = acc.sm
           /\ IF acc.levelFailed
              THEN /\ status' = "failed"
                   /\ epc' = "done"
                   /\ ret' = buildResult("failed")
                   /\ UNCHANGED levelIdx
              ELSE /\ status' = acc.status
                   /\ AdvanceLevel(acc.status)
    /\ UNCHANGED <<skill, executable, outputs, gstate, sem, seen, cancelled, calls>>
    /\ UNCHANGED nonExecVars

\* The workflow deadline passes or the caller cancels.
Cancel ==
    /\ epc # "done"
    /\ ~cancelled
    /\ cancelled' = TRUE
    /\ UNCHANGED <<skill, epc, levelIdx, stepMap, skipped, stepResults, executable,
                   outputs, gstate, sem, seen, status, ret, calls>>
    /\ UNCHANGED nonExecVars

(***************************************************************************)
(* One step with a retry block: executeStepFull, executeStepWithRetry and  *)
(* executeStep, attempt by attempt.                                        *)
(***************************************************************************)
MaxAttempts == 2

\* retry.backoff as written in the skill: unset, zero, one second, not a duration.
Backoffs == {"", "0s", "1s", "soon"}

NoRetry == [set |-> FALSE, maxAttempts |-> 0, backoff |-> ""]

RetryBlocks ==
    {NoRetry} \cup [set : {TRUE}, maxAttempts : 0..MaxAttempts, backoff : Backoffs]

RetrySteps ==
    [id : {"a"}, onError : OnErrorValues, retry : RetryBlocks, badArgs : BOOLEAN]

\* time.ParseDuration, in seconds.
ParseDuration(str) ==
    CASE str = "0s" -> [ok |-> TRUE, dur |-> 0]
      [] str = "1s" -> [ok |-> TRUE, dur |-> 1]
      [] OTHER -> [ok |-> FALSE, dur |-> 0]

\* Lines 1097-1111: the attempts allowed and the backoff between them.
MaxAttemptsOf(step) ==
    IF step.retry.set
    THEN IF step.retry.maxAttempts < 1 THEN 1 ELSE step.retry.maxAttempts
    ELSE 1

BackoffOf(step) ==
    IF step.retry.set /\ step.retry.backoff # "" /\ ParseDuration(step.retry.backoff).ok
    THEN ParseDuration(step.retry.backoff).dur
    ELSE 1

Digit(n) ==
    CASE n = 0 -> "0" [] n = 1 -> "1" [] n = 2 -> "2" [] n = 3 -> "3" [] n = 4 -> "4"
      [] n = 5 -> "5" [] n = 6 -> "6" [] n = 7 -> "7" [] n = 8 -> "8" [] n = 9 -> "9"

\* %d
RECURSIVE Itoa(_)
Itoa(n) == IF n < 10 THEN Digit(n) ELSE Itoa(n \div 10) \o Digit(n % 10)

TransportError == "connection refused"
ToolErrorText == "boom"
ResolveError == "template resolution: unknown reference"
ContextCanceled == "context canceled"

ReturnedError(text) == "step returned error: " \o text

ExhaustedError(step, n, err) ==
    "step \"" \o step.id \o "\" failed after " \o Itoa(n) \o " attempts: " \o err

RetryReturn(text, attempts, err, isError) ==
    [kind |-> "returned", text |-> text, attempts |-> attempts, err |-> err,
     isError |-> isError]

NoRetryReturn == [kind |-> "none", text |-> "", attempts |-> 0, err |-> "", isError |-> FALSE]

\* (mutant) only a transport error fails an attempt; a result with isError
\* set is returned as the attempt's result.
AttemptFailedOnTransportOnly(outcome) == outcome = "err"

\* Line 1116: the attempt succeeded unless CallTool returned an error or a
\* result with isError set.
AttemptFailed(outcome) == outcome # "ok"

\* (mutant) the loop allows one attempt more than max_attempts.
MoreAttemptsInclusive(n, maxAttempts) == n <= maxAttempts

\* Line 1124: another attempt follows a failed one.
MoreAttempts(n, maxAttempts) == n < maxAttempts

\* The cases of the select (lines 1130-1133) that can proceed when it is
\* reached; "" when none can and the goroutine blocks. When both can, Go
\* picks one of them at random.
SelectPoll(done, backoff) ==
    LET ready == (IF done THEN {"ctx"} ELSE {}) \cup (IF backoff <= 0 THEN {"timer"} ELSE {})
    IN  IF ready = {} THEN {""} ELSE ready

\* executeStepWithRetry returns r and executeStepFull turns it into its output.
Return(r) ==
    /\ rpc' = "returned"
    /\ rret' = r
    /\ rout' = executeStepFullResult(rstep, r, 0)
    /\ UNCHANGED <<attempt, rsel, rwaitCancelled>>

\* Lines 1119-1141: after a failed attempt, wait for the next one or give up.
AfterFailedAttempt(err) ==
    /\ lastErr' = err
    /\ IF MoreAttempts(attempt, MaxAttemptsOf(rstep))
       THEN /\ rpc' = "select"
            /\ rwaitCancelled' = rctxDone
            /\ rsel' \in SelectPoll(rctxDone, BackoffOf(rstep))
            /\ UNCHANGED <<attempt, rret, rout>>
       ELSE Return(RetryReturn("", MaxAttemptsOf(rstep),
                               ExhaustedError(rstep, MaxAttemptsOf(rstep), err), FALSE))

\* executeStep up to CallTool: args that do not resolve fail the attempt
\* without a tool call.
AttemptCall ==
    /\ rpc = "call"
    /\ IF rstep.badArgs
       THEN /\ routcomes' = Append(routcomes, "resolve")
            /\ AfterFailedAttempt(ResolveError)
            /\ UNCHANGED rcalls
       ELSE /\ rcalls' = Append(rcalls, [attempt |-> attempt, afterCancel |-> rctxDone,
                                         waitCancelled |-> rwaitCancelled])
            /\ rpc' = "calling"
            /\ UNCHANGED <<attempt, lastErr, rsel, rwaitCancelled, routcomes, rret, rout>>
    /\ UNCHANGED <<rstep, rctxDone>>
    /\ UNCHANGED nonRetryVars

\* CallTool returns.
AttemptReturn(outcome) ==
    /\ rpc = "calling"
    /\ routcomes' = Append(routcomes, outcome)
    /\ IF AttemptFailed(outcome)
       THEN AfterFailedAttempt(IF outcome = "isError" THEN ReturnedError(ToolErrorText)
                               ELSE TransportError)
       ELSE /\ Return(RetryReturn(IF outcome = "isError" THEN ToolErrorText ELSE "ok",
                                  attempt, "", outcome = "isError"))
            /\ UNCHANGED lastErr
    /\ UNCHANGED <<rstep, rctxDone, rcalls>>
    /\ UNCHANGED nonRetryVars

\* The outer context is cancelled; a goroutine blocked in the select is woken
\* on the ctx.Done() case.
RetryCancel ==
    /\ rpc # "returned"
    /\ ~rctxDone
    /\ rctxDone' = TRUE
    /\ rsel' = IF rpc = "select" /\ rsel = "" THEN "ctx" ELSE rsel
    /\ UNCHANGED <<rstep, rpc, attempt, lastErr, rwaitCancelled, rcalls, routcomes, rret, rout>>
    /\ UNCHANGED nonRetryVars

\* The backoff elapses while the goroutine is blocked in the select.
TimerFire ==
    /\ rpc = "select"
    /\ rsel = ""
    /\ rsel' = "timer"
    /\ UNCHANGED <<rstep, rpc, attempt, lastErr, rctxDone, rwaitCancelled, rcalls, routcomes,
                   rret, rout>>
    /\ UNCHANGED nonRetryVars

\* The select proceeds on its chosen case: return ctx.Err(), or loop.
SelectResume ==
    /\ rpc = "select"
    /\ rsel # ""
    /\ IF rsel = "ctx"
       THEN Return(RetryReturn("", attempt, ContextCanceled, FALSE))
       ELSE /\ attempt' = attempt + 1
            /\ rpc' = "call"
            /\ UNCHANGED <<rsel, rwaitCancelled, rret, rout>>
    /\ UNCHANGED <<rstep, lastErr, rctxDone, rcalls, routcomes>>
    /\ UNCHANGED nonRetryVars

RetryStart(steps) ==
    /\ rstep \in steps
    /\ rpc = "call"
    /\ attempt = 1
    /\ lastErr = ""
    /\ rctxDone = FALSE
    /\ rsel = ""
    /\ rwaitCancelled = FALSE
    /\ rcalls = << >>
    /\ routcomes = << >>
    /\ rret = NoRetryReturn
    /\ rout = ZeroOutput

IdleStep == [id |-> "a", onError |-> "", retry |-> NoRetry, badArgs |-> FALSE]

(***************************************************************************)
(* Execute before the first level: call stack, depth, inputs, planning;    *)
(* and skills that call skills.                                            *)
(***************************************************************************)
MaxDepth == 2

SkillNames == {"s0", "s1", "s2", "s3"}

InputNames == {"x", "y"}

\* How an input is declared: not at all, optional, required, with a default,
\* required with a default.
InputKinds == {"none", "optional", "required", "default", "requiredDefault"}

InputDecls == [InputNames -> InputKinds]

NoInputs == [n \in InputNames |-> "none"]

PlanIds == {"a", "b"}

\* Step lists as a skill document can hold them: any ids, any depends_on.
PlanSteps == [id : PlanIds, dependsOn : SUBSET (PlanIds \cup {"ghost"})]

PlanWorkflows == UNION { [1..n -> PlanSteps] : n \in 0..2 }

OneStep == << [id |-> "a", dependsOn |-> {}] >>

GhostStep == << [id |-> "a", dependsOn |-> {"ghost"}] >>

CircularDependency == "circular dependency detected"
DepthExceeded == "max workflow depth exceeded"
NoWorkflowSteps == "no workflow steps"
InputValidation == "input validation"
BuildingDAG == "building workflow DAG"

\* (mutant) only a skill that calls itself directly is a cycle.
InCallStackDirectly(stack, name) ==
    stack # << >> /\ stack[Len(stack)] = name

\* Lines 828-833: the skill name is already in the call stack.
InCallStack(stack, name) ==
    \E i \in DOMAIN stack : stack[i] = name

\* (mutant) the stack may hold one name more than maxDepth before the check fires.
DepthReachedLate(stack) == Len(stack) > MaxDepth

\* Lines 835-838: len(stack) >= e.maxDepth.
DepthReached(stack) == Len(stack) >= MaxDepth

\* (mutant) an input that is not provided is never an error.
validateInputsNeverFails(inputs, arguments) == ""

\* validateInputs: an input that is not provided takes its default; without
\* a default it is an error if the input is required.
validateInputs(inputs, arguments) ==
    IF \E n \in DOMAIN inputs :
          /\ inputs[n] # "none"
          /\ n \notin arguments
          /\ inputs[n] \notin {"default", "requiredDefault"}
          /\ inputs[n] = "required"
    THEN InputValidation
    ELSE ""

\* Kahn's layering: peel off the steps whose dependencies are all done; what
\* cannot be peeled is on a cycle.
RECURSIVE Unplanned(_, _, _)
Unplanned(wf, remaining, done) ==
    LET ready == {i \in remaining : wf[i].dependsOn \subseteq done}
    IN  IF ready = {} THEN remaining
        ELSE Unplanned(wf, remaining \ ready, done \cup {wf[i].id : i \in ready})

\* (mutant) a repeated step id is not looked for.
PlanErrorAllowsDuplicates(wf) ==
    IF \E i \in DOMAIN wf : \E d \in wf[i].dependsOn : \A j \in DOMAIN wf : wf[j].id # d
    THEN "unknown dependency"
    ELSE IF Unplanned(wf, DOMAIN wf, {}) # {} THEN "cycle"
    ELSE ""

\* The error of BuildWorkflowDAG: a duplicate step id, a dependency on a
\* step that does not exist, or a cycle.
PlanError(wf) ==
    IF \E i, j \in DOMAIN wf : i < j /\ wf[i].id = wf[j].id
    THEN "duplicate step id"
    ELSE IF \E i \in DOMAIN wf : \E d \in wf[i].dependsOn : \A j \in DOMAIN wf : wf[j].id # d
    THEN "unknown dependency"
    ELSE IF Unplanned(wf, DOMAIN wf, {}) # {} THEN "cycle"
    ELSE ""

\* Lines 827-856: the error Execute returns before it runs anything, "" if none.
ExecuteEntry(stack, sk, arguments) ==
    IF InCallStack(stack, sk.name) THEN CircularDependency
    ELSE IF DepthReached(stack) THEN DepthExceeded
    ELSE IF Len(sk.workflow) = 0 THEN NoWorkflowSteps
    ELSE IF validateInputs(sk.inputs, arguments) # "" THEN InputValidation
    ELSE IF PlanError(sk.workflow) # "" THEN BuildingDAG
    ELSE ""

\* The skill store: "s0" is the skill under study, the others are plain
\* one-step skills without inputs.
AgentSkill(name) ==
    IF name = "s0"
    THEN [name |-> name, inputs |-> einputs, workflow |-> ewf]
    ELSE [name |-> name, inputs |-> NoInputs, workflow |-> OneStep]

Arguments(name) == IF name = "s0" THEN eargs ELSE {}

\* Execute is called for a skill, by a client when nothing runs, otherwise by
\* a step of the innermost running skill, whose context carries the stack.
Execute(name) ==
    LET err == ExecuteEntry(frames, AgentSkill(name), Arguments(name))
    IN  /\ elast' = [op |-> "execute", name |-> name, err |-> err]
        /\ frames' = IF err = "" THEN Append(frames, name) ELSE frames
        /\ UNCHANGED <<ewf, einputs, eargs>>
        /\ UNCHANGED nonEntryVars

\* A step of the innermost running skill invokes a tool that is not a skill.
CallTool ==
    /\ frames # << >>
    /\ elast' = [op |-> "tool", name |-> frames[Len(frames)], err |-> ""]
    /\ UNCHANGED <<ewf, einputs, eargs, frames>>
    /\ UNCHANGED nonEntryVars

\* The innermost running skill returns.
ExecuteReturn ==
    /\ frames # << >>
    /\ frames' = SubSeq(frames, 1, Len(frames) - 1)
    /\ elast' = [op |-> "return", name |-> frames[Len(frames)], err |-> ""]
    /\ UNCHANGED <<ewf, einputs, eargs>>
    /\ UNCHANGED nonEntryVars

\* The skills "s0" can be: any step list with no inputs, or an empty, a
\* plain or a dangling one-step workflow with any declaration of inputs and
\* any arguments.
EntryConfigs ==
    [wf : PlanWorkflows, inputs : {NoInputs}, args : {{}}]
        \cup [wf : {<< >>, OneStep, GhostStep}, inputs : InputDecls, args : SUBSET InputNames]

IdleConfig == [wf |-> OneStep, inputs |-> NoInputs, args |-> {}]

EntryStart(configs) ==
    /\ \E c \in configs : ewf = c.wf /\ einputs = c.inputs /\ eargs = c.args
    /\ frames = << >>
    /\ elast = [op |-> "", name |-> "", err |-> ""]

(***************************************************************************)
(* SSE session manager: GET opens a session and its stream, POST on the    *)
(* paired message path carries the requests.                               *)
(***************************************************************************)
MaxPosts == 2

SessionIds == {"S1", "S2"}

\* The id of a JSON-RPC request as it stands in the body: its JSON form and
\* its text.
JsonIds ==
    { [form |-> "number", text |-> "7"],
      [form |-> "string", text |-> "7"],
      [form |-> "null", text |-> "null"] }

\* A request for the tool list under each id.
Requests == [id : JsonIds, method : {"tools/list"}]

NoRequestYet == [id |-> [form |-> "", text |-> ""], method |-> ""]

StatusOK == 200
StatusAccepted == 202
StatusNotFound == 404
NoStatus == 0

\* An HTTP body is empty or holds one JSON document.
NoBody == << >>

NoPost == [session |-> "", req |-> NoRequestYet, status |-> NoStatus, body |-> NoBody]

\* The first event of a stream: the path of the paired message endpoint.
EndpointEvent(id) == [event |-> "endpoint", data |-> << "/message?sessionId=" \o id >>]

\* Request.ID is a pointer to the raw JSON of the id: null decodes to the nil
\* pointer, anything else is kept byte for byte.
DecodeId(id) == IF id.form = "null" THEN << >> ELSE << id >>

\* A nil id is written as null, a raw id as it was read.
EncodeId(ptr) == IF ptr = << >> THEN [form |-> "null", text |-> "null"] ELSE ptr[1]

\* (mutant) the id is written as a number whatever it was.
ResponseWithNumericId(req) ==
    [jsonrpc |-> "2.0", id |-> [form |-> "number", text |-> req.id.text]]

\* The JSON-RPC reply of the gateway to the request: it carries the request id.
Response(req) ==
    [jsonrpc |-> "2.0", id |-> EncodeId(DecodeId(req.id))]

MessageEvent(resp) == [event |-> "message", data |-> << resp >>]

\* The reply is written on the stream of the session as a message event;
\* writes on one session are serialized, each is one step.
sendToSession(id, resp) == [stream EXCEPT ![id] = Append(@, MessageEvent(resp))]

\* GET on the SSE path: a session is allocated under a fresh id and
\* registered, the endpoint event is the first event of its stream.
ServeHTTP(id) ==
    /\ id \notin sessions
    /\ stream[id] = << >>
    /\ sessions' = sessions \cup {id}
    /\ stream' = [stream EXCEPT ![id] = << EndpointEvent(id) >>]
    /\ UNCHANGED <<post, posts, inflight, written, direct>>
    /\ UNCHANGED nonSseVars

\* The client goes away: the session is removed and its stream ends.
SessionDone(id) ==
    /\ id \in sessions
    /\ sessions' = sessions \ {id}
    /\ UNCHANGED <<stream, post, posts, inflight, written, direct>>
    /\ UNCHANGED nonSseVars

\* POST on the message path of session id with a JSON-RPC request: the
\* session is looked up and the request is dispatched through the gateway.
\* Every POST is served by a task of its own.
HandleMessage(id, req) ==
    /\ IF id \notin sessions
       THEN /\ post' = [session |-> id, req |-> req, status |-> StatusNotFound, body |-> NoBody]
            /\ UNCHANGED <<posts, inflight>>
       ELSE /\ Len(posts) < MaxPosts
            /\ posts' = Append(posts, [session |-> id, req |-> req])
            /\ inflight' = inflight \cup {Len(posts) + 1}
            /\ UNCHANGED post
    /\ UNCHANGED <<sessions, stream, written, direct>>
    /\ UNCHANGED nonSseVars

\* The dispatch of POST n returns: the reply is sent to the session, if it
\* is still there, and written to the POST.
HandleMessageReply(n) ==
    /\ n \in inflight
    /\ LET p == posts[n]
           resp == Response(p.req)
       IN  /\ IF p.session \in sessions
              THEN /\ stream' = sendToSession(p.session, resp)
                   /\ written' = [written EXCEPT ![p.session] = Append(@, n)]
              ELSE UNCHANGED <<stream, written>>
           /\ post' = [session |-> p.session, req |-> p.req, status |-> StatusOK,
                       body |-> << resp >>]
    /\ inflight' = inflight \ {n}
    /\ UNCHANGED <<sessions, posts, direct>>
    /\ UNCHANGED nonSseVars

\* POST on the direct path: the reply is the body of the HTTP response.
ServeMCP(req) ==
    /\ direct' = [session |-> "", req |-> req, status |-> StatusOK, body |-> << Response(req) >>]
    /\ UNCHANGED <<sessions, stream, post, posts, inflight, written>>
    /\ UNCHANGED nonSseVars

SseStart ==
    /\ sessions = {}
    /\ stream = [id \in SessionIds |-> << >>]
    /\ post = NoPost
    /\ posts = << >>
    /\ inflight = {}
    /\ written = [id \in SessionIds |-> << >>]
    /\ direct = NoPost

(***************************************************************************)
(* Pipe-style southbound client (child process, remote shell, container    *)
(* attach): writer, pending map, reader task and drain.                    *)
(***************************************************************************)
MaxJunk == 1

\* The goroutines that call the client concurrently.
Calls == {"c1", "c2"}

NoCall == ""

ConnectionLost == "connection lost"

\* A line of the southbound stream: the reply to a request id, a JSON-RPC
\* response whose id matches no request, or a line that is not JSON.
ReplyLine(id) == [kind |-> "response", id |-> id]
StrayLine == [kind |-> "response", id |-> 0]
NoiseLine == [kind |-> "text", id |-> 0]

\* call(): take the writer lock, stamp the next id and insert the completion
\* channel into the pending map.
Register(c) ==
    /\ callState[c] = "idle"
    /\ writerLock = NoCall
    /\ writerLock' = c
    /\ requestID' = requestID + 1
    /\ callID' = [callID EXCEPT ![c] = requestID + 1]
    /\ responses' = MapSet(responses, requestID + 1, c)
    /\ callState' = [callState EXCEPT ![c] = "registered"]
    /\ UNCHANGED <<respCh, callResult, stdout, stdoutClosed, served, replied, junk,
                   reader, readerCtxDone, readFailed, exitCause>>
    /\ UNCHANGED nonPipeVars

\* call(): write the frame to the peer and release the writer lock.
Send(c) ==
    /\ callState[c] = "registered"
    /\ writerLock = c
    /\ writerLock' = NoCall
    /\ served' = served \cup {callID[c]}
    /\ callState' = [callState EXCEPT ![c] = "waiting"]
    /\ UNCHANGED <<requestID, responses, respCh, callID, callResult, stdout, stdoutClosed,
                   replied, junk, reader, readerCtxDone, readFailed, exitCause>>
    /\ UNCHANGED nonPipeVars

\* The completion channel fired: call() returns the response or its error.
Receive(c) ==
    /\ callState[c] = "waiting"
    /\ respCh[c] # ""
    /\ callResult' = [callResult EXCEPT ![c] = respCh[c]]
    /\ callState' = [callState EXCEPT ![c] = "returned"]
    /\ UNCHANGED <<requestID, responses, respCh, callID, writerLock, stdout, stdoutClosed,
                   served, replied, junk, reader, readerCtxDone, readFailed, exitCause>>
    /\ UNCHANGED nonPipeVars

\* (mutant) the call returns and leaves its entry in the pending map.
GiveUpKeepsEntry(c, why) ==
    /\ callState[c] = "waiting"
    /\ callResult' = [callResult EXCEPT ![c] = why]
    /\ callState' = [callState EXCEPT ![c] = "returned"]
    /\ UNCHANGED <<requestID, responses, respCh, callID, writerLock, stdout, stdoutClosed,
                   served, replied, junk, reader, readerCtxDone, readFailed, exitCause>>
    /\ UNCHANGED nonPipeVars

\* The request deadline ("timeout") or the caller's cancellation
\* ("cancelled") fired first: the pending entry is removed.
GiveUp(c, why) ==
    /\ callState[c] = "waiting"
    /\ responses' = [id \in (DOMAIN responses) \ {callID[c]} |-> responses[id]]
    /\ callResult' = [callResult EXCEPT ![c] = why]
    /\ callState' = [callState EXCEPT ![c] = "returned"]
    /\ UNCHANGED <<requestID, respCh, callID, writerLock, stdout, stdoutClosed,
                   served, replied, junk, reader, readerCtxDone, readFailed, exitCause>>
    /\ UNCHANGED nonPipeVars

\* The southbound peer answers a request it has received.
PeerReply(id) ==
    /\ ~stdoutClosed
    /\ id \in served \ replied
    /\ replied' = replied \cup {id}
    /\ stdout' = Append(stdout, ReplyLine(id))
    /\ UNCHANGED <<requestID, responses, respCh, callState, callID, callResult, writerLock,
                   stdoutClosed, served, junk, reader, readerCtxDone, readFailed, exitCause>>
    /\ UNCHANGED nonPipeVars

\* The peer writes a line that answers nothing: a response with an unknown
\* id, text that is not JSON, or a second reply to a request it has answered.
PeerJunk(line) ==
    /\ ~stdoutClosed
    /\ junk < MaxJunk
    /\ junk' = junk + 1
    /\ stdout' = Append(stdout, line)
    /\ UNCHANGED <<requestID, responses, respCh, callState, callID, callResult, writerLock,
                   stdoutClosed, served, replied, reader, readerCtxDone, readFailed, exitCause>>
    /\ UNCHANGED nonPipeVars

\* The peer dies or closes its end of the stream.
PeerClose ==
    /\ ~stdoutClosed
    /\ stdoutClosed' = TRUE
    /\ UNCHANGED <<requestID, responses, respCh, callState, callID, callResult, writerLock,
                   stdout, served, replied, junk, reader, readerCtxDone, readFailed, exitCause>>
    /\ UNCHANGED nonPipeVars

\* The stream breaks with a read error.
StreamError ==
    /\ reader = "running"
    /\ ~readFailed
    /\ readFailed' = TRUE
    /\ UNCHANGED <<requestID, responses, respCh, callState, callID, callResult, writerLock,
                   stdout, stdoutClosed, served, replied, junk, reader, readerCtxDone, exitCause>>
    /\ UNCHANGED nonPipeVars

\* The reader's context is cancelled.
CancelReader ==
    /\ reader = "running"
    /\ ~readerCtxDone
    /\ readerCtxDone' = TRUE
    /\ UNCHANGED <<requestID, responses, respCh, callState, callID, callResult, writerLock,
                   stdout, stdoutClosed, served, replied, junk, reader, readFailed, exitCause>>
    /\ UNCHANGED nonPipeVars

\* (mutant) a response is handed to the oldest pending entry, whatever its id.
ReadLineToOldestPending ==
    /\ reader = "running"
    /\ ~readFailed
    /\ stdout # << >>
    /\ LET line == Head(stdout)
       IN  IF line.kind = "response" /\ DOMAIN responses # {}
           THEN LET oldest == CHOOSE id \in DOMAIN responses :
                                 \A other \in DOMAIN responses : id <= other
                IN  /\ respCh' = [respCh EXCEPT ![responses[oldest]] = "ok"]
                    /\ responses' = [id \in (DOMAIN responses) \ {oldest} |-> responses[id]]
           ELSE UNCHANGED <<respCh, responses>>
    /\ stdout' = Tail(stdout)
    /\ UNCHANGED <<requestID, callState, callID, callResult, writerLock, stdoutClosed,
                   served, replied, junk, reader, readerCtxDone, readFailed, exitCause>>
    /\ UNCHANGED nonPipeVars

\* (mutant) a response is handed to its channel and the entry stays.
ReadLineKeepsEntry ==
    /\ reader = "running"
    /\ ~readFailed
    /\ stdout # << >>
    /\ LET line == Head(stdout)
       IN  IF line.kind = "response" /\ line.id \in DOMAIN responses
           THEN respCh' = [respCh EXCEPT ![responses[line.id]] = "ok"]
           ELSE UNCHANGED respCh
    /\ stdout' = Tail(stdout)
    /\ UNCHANGED <<requestID, responses, callState, callID, callResult, writerLock,
                   stdoutClosed, served, replied, junk, reader, readerCtxDone, readFailed,
                   exitCause>>
    /\ UNCHANGED nonPipeVars

\* readResponses: one line. A response whose id is pending is handed to its
\* channel and the entry removed; anything else is dropped.
ReadLine ==
    /\ reader = "running"
    /\ ~readFailed
    /\ stdout # << >>
    /\ LET line == Head(stdout)
       IN  IF line.kind = "response" /\ line.id \in DOMAIN responses
           THEN /\ respCh' = [respCh EXCEPT ![responses[line.id]] = "ok"]
                /\ responses' = [id \in (DOMAIN responses) \ {line.id} |-> responses[id]]
           ELSE UNCHANGED <<respCh, responses>>
    /\ stdout' = Tail(stdout)
    /\ UNCHANGED <<requestID, callState, callID, callResult, writerLock, stdoutClosed,
                   served, replied, junk, reader, readerCtxDone, readFailed, exitCause>>
    /\ UNCHANGED nonPipeVars

\* (mutant) the drain completes the channels but leaves the entries in the map.
drainKeepsEntries(resp, chans) ==
    [responses |-> resp,
     respCh |-> [c \in DOMAIN chans |->
                    IF \E id \in DOMAIN resp : resp[id] = c THEN ConnectionLost ELSE chans[c]]]

\* drainPendingRequests: every entry of the pending map is completed with a
\* synthetic "connection lost" error and the map is emptied.
drainPendingRequests(resp, chans) ==
    [responses |-> EmptyMap,
     respCh |-> [c \in DOMAIN chans |->
                    IF \E id \in DOMAIN resp : resp[id] = c THEN ConnectionLost ELSE chans[c]]]

ExitReady(cause) ==
    CASE cause = "eof" -> stdoutClosed /\ stdout = << >> /\ ~readFailed
      [] cause = "error" -> readFailed
      [] cause = "cancel" -> readerCtxDone

\* (mutant) the reader drains on a read error and on cancellation, but returns
\* without draining when the stream simply ends.
ReaderExitNoDrainOnEOF(cause) ==
    /\ reader = "running"
    /\ ExitReady(cause)
    /\ LET d == IF cause = "eof" THEN [responses |-> responses, respCh |-> respCh]
                ELSE drainPendingRequests(responses, respCh)
       IN  /\ responses' = d.responses
           /\ respCh' = d.respCh
    /\ reader' = "exited"
    /\ exitCause' = cause
    /\ UNCHANGED <<requestID, callState, callID, callResult, writerLock, stdout, stdoutClosed,
                   served, replied, junk, readerCtxDone, readFailed>>
    /\ UNCHANGED nonPipeVars

\* readResponses returns (EOF, read error or cancellation) and drains.
ReaderExit(cause) ==
    /\ reader = "running"
    /\ ExitReady(cause)
    /\ LET d == drainPendingRequests(responses, respCh)
       IN  /\ responses' = d.responses
           /\ respCh' = d.respCh
    /\ reader' = "exited"
    /\ exitCause' = cause
    /\ UNCHANGED <<requestID, callState, callID, callResult, writerLock, stdout, stdoutClosed,
                   served, replied, junk, readerCtxDone, readFailed>>
    /\ UNCHANGED nonPipeVars

PipeStart ==
    /\ requestID = 0
    /\ responses = EmptyMap
    /\ respCh = [c \in Calls |-> ""]
    /\ callState = [c \in Calls |-> "idle"]
    /\ callID = [c \in Calls |-> 0]
    /\ callResult = [c \in Calls |-> ""]
    /\ writerLock = NoCall
    /\ stdout = << >>
    /\ stdoutClosed = FALSE
    /\ served = {}
    /\ replied = {}
    /\ junk = 0
    /\ reader = "running"
    /\ readerCtxDone = FALSE
    /\ readFailed = FALSE
    /\ exitCause = ""

(***************************************************************************)
(* Agent ACL and the gateway's tools/list and tools/call.                  *)
(***************************************************************************)
MaxSelectors == 2

\* Names are sequences of characters, so that globs and the "__" prefix
\* separator act on them character by character.
Server1 == <<"s", "1">>
Server2 == <<"s", "2">>
NoServer == <<"s", "3">>
Separator == <<"_", "_">>

\* The raw catalog, in the order the router aggregates it.
Catalog ==
    << [server |-> Server1, name |-> <<"a", "b">>],
       [server |-> Server1, name |-> <<"a", "c">>],
       [server |-> Server1, name |-> <<"b">>],
       [server |-> Server2, name |-> <<"a", "b">>],
       [server |-> Server2, name |-> <<"c", "a", "b">>] >>

UnknownTool == [server |-> Server1, name |-> <<"z">>]

ToolLists ==
    { << >>,
      << <<"a", "b">> >>,
      << <<"a", "?">> >>,
      << <<"*", "b">>, <<"?">> >>,
      << <<"A", "b">> >>,
      << <<"*", "a", "*">>, <<"z">> >> }

ToolSelectors ==
    [server : {Server1, Server2}, tools : ToolLists] \cup {[server |-> NoServer, tools |-> << >>]}

SelectorLists == UNION { [1..n -> ToolSelectors] : n \in 0..MaxSelectors }

Agents == {"agent1"}

PrefixTool(server, name) == server \o Separator \o name

\* Split a prefixed tool name at the first "__".
ParsePrefixedTool(full) ==
    LET cuts == {i \in 1..(Len(full) - 1) : full[i] = "_" /\ full[i + 1] = "_"}
    IN  IF cuts = {}
        THEN [ok |-> FALSE, server |-> << >>, name |-> << >>]
        ELSE LET i == CHOOSE k \in cuts : \A m \in cuts : k <= m
             IN  [ok |-> TRUE, server |-> SubSeq(full, 1, i - 1),
                  name |-> SubSeq(full, i + 2, Len(full))]

\* Glob match: "*" is zero or more characters, "?" is exactly one, any other
\* character matches itself (case-sensitive).
RECURSIVE GlobMatch(_, _)
GlobMatch(g, t) ==
    IF g = << >> THEN t = << >>
    ELSE IF Head(g) = "*"
         THEN GlobMatch(Tail(g), t) \/ (t # << >> /\ GlobMatch(g, Tail(t)))
         ELSE /\ t # << >>
              /\ (Head(g) = "?" \/ Head(g) = Head(t))
              /\ GlobMatch(Tail(g), Tail(t))

RECURSIVE MatchesAny(_, _, _)
MatchesAny(globs, i, name) ==
    IF i > Len(globs) THEN FALSE
    ELSE IF GlobMatch(globs[i], name) THEN TRUE
    ELSE MatchesAny(globs, i + 1, name)

\* (mutant) a selector admits every tool of its server, whatever its globs.
SelectorAllowsWholeServer(sel, server, name) ==
    sel.server = server

\* One selector: the server must be the selector's; an empty tool list admits
\* every tool of the server, otherwise some glob must match.
SelectorAllows(sel, server, name) ==
    /\ sel.server = server
    /\ (sel.tools = << >> \/ MatchesAny(sel.tools, 1, name))

RECURSIVE AnySelectorAllows(_, _, _, _)
AnySelectorAllows(selectors, i, server, name) ==
    IF i > Len(selectors) THEN FALSE
    ELSE IF SelectorAllows(selectors[i], server, name) THEN TRUE
    ELSE AnySelectorAllows(selectors, i + 1, server, name)

\* (mutant) a session without an agent is treated as an agent without selectors.
IsToolAllowedForAgentsOnly(access, agent, server, name) ==
    /\ agent # ""
    /\ (agent \notin DOMAIN access \/ AnySelectorAllows(access[agent], 1, server, name))

\* The ACL rule: no agent bound allows everything; a bound agent is allowed
\* what one of its selectors admits.
IsToolAllowed(access, agent, server, name) ==
    IF agent = "" \/ agent \notin DOMAIN access THEN TRUE
    ELSE AnySelectorAllows(access[agent], 1, server, name)

RECURSIVE FilterCatalog(_, _, _, _)
FilterCatalog(access, agent, i, acc) ==
    IF i > Len(Catalog) THEN acc
    ELSE FilterCatalog(access, agent, i + 1,
            IF IsToolAllowed(access, agent, Catalog[i].server, Catalog[i].name)
            THEN Append(acc, PrefixTool(Catalog[i].server, Catalog[i].name))
            ELSE acc)

NoRequest == [method |-> "", agent |-> "", name |-> << >>, query |-> "", header |-> ""]

\* A tools/call that reached no client.
NoRoute == [client |-> << >>, tool |-> << >>]

\* What a GET on the SSE path can carry as ?agent= and as X-Agent-Name,
\* "" when it carries none.
AgentNames == {"", "agent1", "agent2"}
NoResponse == [rpcError |-> "", isError |-> FALSE, text |-> "", tools |-> << >>]

ListResponse(tools) == [rpcError |-> "", isError |-> FALSE, text |-> "", tools |-> tools]
ToolResult(isError, text) == [rpcError |-> "", isError |-> isError, text |-> text, tools |-> << >>]
RpcError(msg) == [rpcError |-> msg, isError |-> FALSE, text |-> "", tools |-> << >>]

AccessDenied == "access denied"

InCatalog(server, name) ==
    \E i \in DOMAIN Catalog : Catalog[i].server = server /\ Catalog[i].name = name

\* Binding an agent name to its selectors (done when the agent is deployed).
RegisterAgent(agent, selectors) ==
    /\ agent \notin DOMAIN agentSelectors
    /\ agentSelectors' = MapSet(agentSelectors, agent, selectors)
    /\ request' = NoRequest
    /\ response' = NoResponse
    /\ routed' = NoRoute
    /\ UNCHANGED sessionAgent
    /\ UNCHANGED nonAclVars

\* (mutant) the header is looked at first.
AgentIdentityHeaderFirst(query, header) ==
    IF header # "" THEN header ELSE query

\* The agent identity of a connection: the query parameter, the header if
\* there is no query parameter, empty if there is neither.
AgentIdentity(query, header) ==
    IF query # "" THEN query ELSE header

\* A session connects: its agent identity is taken from the GET.
OpenSession(query, header) ==
    /\ sessionAgent' = AgentIdentity(query, header)
    /\ request' = [method |-> "GET", agent |-> sessionAgent', name |-> << >>,
                   query |-> query, header |-> header]
    /\ response' = NoResponse
    /\ routed' = NoRoute
    /\ UNCHANGED agentSelectors
    /\ UNCHANGED nonAclVars

\* tools/list: the catalog filtered by the session's agent.
handleToolsList ==
    /\ request' = [method |-> "tools/list", agent |-> sessionAgent, name |-> << >>,
                   query |-> "", header |-> ""]
    /\ response' = ListResponse(FilterCatalog(agentSelectors, sessionAgent, 1, << >>))
    /\ routed' = NoRoute
    /\ UNCHANGED <<agentSelectors, sessionAgent>>
    /\ UNCHANGED nonAclVars

\* (mutant) a denied call is answered with a JSON-RPC protocol error.
handleToolsCallDeniesWithRpcError(full, outcome) ==
    LET parsed == ParsePrefixedTool(full)
    IN  /\ request' = [method |-> "tools/call", agent |-> sessionAgent, name |-> full,
                       query |-> "", header |-> ""]
        /\ IF ~parsed.ok
           THEN response' = ToolResult(TRUE, "invalid tool name") /\ routed' = NoRoute
           ELSE IF ~IsToolAllowed(agentSelectors, sessionAgent, parsed.server, parsed.name)
           THEN response' = RpcError(AccessDenied) /\ routed' = NoRoute
           ELSE IF ~InCatalog(parsed.server, parsed.name)
           THEN response' = ToolResult(TRUE, "tool not found") /\ routed' = NoRoute
           ELSE /\ routed' = [client |-> parsed.server, tool |-> parsed.name]
                /\ response' = CASE outcome = "ok" -> ToolResult(FALSE, "called")
                                 [] outcome = "isError" -> ToolResult(TRUE, "tool failed")
                                 [] outcome = "transport" -> RpcError("transport failure")
        /\ UNCHANGED <<agentSelectors, sessionAgent>>
        /\ UNCHANGED nonAclVars

\* tools/call: apply the ACL, then route. A denial is a tool result with
\* is_error = true; only a transport failure becomes a JSON-RPC error.
handleToolsCall(full, outcome) ==
    LET parsed == ParsePrefixedTool(full)
    IN  /\ request' = [method |-> "tools/call", agent |-> sessionAgent, name |-> full,
                       query |-> "", header |-> ""]
        /\ IF ~parsed.ok
           THEN response' = ToolResult(TRUE, "invalid tool name") /\ routed' = NoRoute
           ELSE IF ~IsToolAllowed(agentSelectors, sessionAgent, parsed.server, parsed.name)
           THEN response' = ToolResult(TRUE, AccessDenied) /\ routed' = NoRoute
           ELSE IF ~InCatalog(parsed.server, parsed.name)
           THEN response' = ToolResult(TRUE, "tool not found") /\ routed' = NoRoute
           ELSE /\ routed' = [client |-> parsed.server, tool |-> parsed.name]
                /\ response' = CASE outcome = "ok" -> ToolResult(FALSE, "called")
                                 [] outcome = "isError" -> ToolResult(TRUE, "tool failed")
                                 [] outcome = "transport" -> RpcError("transport failure")
        /\ UNCHANGED <<agentSelectors, sessionAgent>>
        /\ UNCHANGED nonAclVars

CallNames ==
    {PrefixTool(Catalog[i].server, Catalog[i].name) : i \in DOMAIN Catalog}
        \cup {PrefixTool(UnknownTool.server, UnknownTool.name), <<"a", "b">>}

RouteOutcomes == {"ok", "isError", "transport"}

AclStart ==
    /\ agentSelectors = [a \in {} |-> << >>]
    /\ sessionAgent = ""
    /\ request = NoRequest
    /\ response = NoResponse
    /\ routed = NoRoute

(***************************************************************************)
(* Specifications.                                                         *)
(***************************************************************************)
(***************************************************************************)
(* Router: call_tool by prefixed name, forwarded to the owning client.     *)
(***************************************************************************)
MaxNameLen == 2

MaxRouterCalls == 2
MaxInclude == 2
MaxSkills == 2
MaxMessages == 2

\* Names are made of letters, digits, "_" and "-".
NameChars == {"a", "b", "_"}

Names == UNION { [1..n -> NameChars] : n \in 1..MaxNameLen }

TransportLost == "transport lost"

NoToolCall == [name |-> << >>, forwards |-> << >>, err |-> "", isError |-> FALSE]

\* tools/list of the router: the tool of the client under its prefixed name.
RouterTools == << PrefixTool(rclient, rtool) >>

\* (mutant) a forward that ends with a lost transport is made once more.
ForwardWithRetry(target, outcome) ==
    IF outcome = "transport" THEN << target, target >> ELSE << target >>

\* The router forwards a call to the client once, whatever comes back.
Forward(target, outcome) == << target >>

\* call_tool(prefixed name): split at the first "__", resolve the client of
\* that name, forward with the unprefixed name and hand back what the client
\* returns: a result, a result with the error flag, or a transport error.
RouteToolCall(full, outcome) ==
    /\ rcount.router < MaxRouterCalls
    /\ LET parsed == ParsePrefixedTool(full)
           target == [client |-> parsed.server, tool |-> parsed.name]
       IN  IF ~parsed.ok
           THEN /\ rcall' = [NoToolCall EXCEPT !.name = full, !.err = "invalid tool name"]
                /\ rcount' = [rcount EXCEPT !.router = @ + 1]
           ELSE IF parsed.server # rclient
           THEN /\ rcall' = [NoToolCall EXCEPT !.name = full, !.err = "unknown client"]
                /\ rcount' = [rcount EXCEPT !.router = @ + 1]
           ELSE /\ rcall' = [name |-> full,
                             forwards |-> Forward(target, outcome),
                             err |-> IF outcome = "transport" THEN TransportLost ELSE "",
                             isError |-> outcome = "isError" \/ parsed.name # rtool]
                /\ rcount' = [router |-> rcount.router + 1,
                              client |-> rcount.client + Len(Forward(target, outcome))]
    /\ UNCHANGED <<rclient, rtool>>
    /\ UNCHANGED nonRouterVars

\* What is called: the name tools/list gave, or a name that was never listed.
RouterCallNames == {RouterTools[1], <<"b", "_", "_", "a">>, <<"a">>}

RouterConfigs == [client : Names, tool : Names]

IdleNames == [client |-> <<"a">>, tool |-> <<"a">>]

RouterStart(configs) ==
    /\ \E c \in configs : rclient = c.client /\ rtool = c.tool
    /\ rcall = NoToolCall
    /\ rcount = [router |-> 0, client |-> 0]

(***************************************************************************)
(* Registry server: skills as tools (CallTool) and as prompts.             *)
(***************************************************************************)
StoredNames == {"k1", "k2"}

StateDraft == "draft"
StateActive == "active"
StateDisabled == "disabled"

SkillStates == {StateDraft, StateActive, StateDisabled}

\* A stored skill: its state, and whether it has a workflow (IsExecutable).
StoredSkills == [state : SkillStates, executable : BOOLEAN]

NoSkill == << >>

NoOp == [op |-> "", name |-> "", err |-> "", isError |-> FALSE, text |-> "",
         executed |-> FALSE, names |-> {}]

ErrNotFound == "not found"
NotExecutable == "This skill is a knowledge document, not executable."
NotActive == "not active"
NoExecutor == "Workflow execution is not available. No executor configured."

\* Store.GetSkill: the skill of that name, in whatever state it is.
GetSkill(name) == store[name]

\* (mutant) only disabled skills are left out.
ActiveSkillsWithDrafts == {n \in StoredNames : store[n] # NoSkill /\ store[n][1].state # StateDisabled}

\* Store.ActiveSkills: the stored skills whose state is active.
ActiveSkills == {n \in StoredNames : store[n] # NoSkill /\ store[n][1].state = StateActive}

\* The CRUD API stores a skill, new or in place of the one of that name.
SaveSkill(name, sk) ==
    /\ store' = [store EXCEPT ![name] = << sk >>]
    /\ reg' = [NoOp EXCEPT !.op = "SaveSkill", !.name = name]
    /\ UNCHANGED executor
    /\ UNCHANGED nonRegistryVars

DeleteSkill(name) ==
    /\ store[name] # NoSkill
    /\ store' = [store EXCEPT ![name] = NoSkill]
    /\ reg' = [NoOp EXCEPT !.op = "DeleteSkill", !.name = name]
    /\ UNCHANGED executor
    /\ UNCHANGED nonRegistryVars

\* Server.Tools: the active skills that are executable.
ServerTools ==
    /\ reg' = [NoOp EXCEPT !.op = "Tools",
                           !.names = IF ~executor THEN {}
                                     ELSE {n \in ActiveSkills : store[n][1].executable}]
    /\ UNCHANGED <<store, executor>>
    /\ UNCHANGED nonRegistryVars

\* Server.CallTool: the skill is fetched from the store; one without a
\* workflow is answered with an error result, any other is executed.
ServerCallTool(name) ==
    /\ LET sk == GetSkill(name)
       IN  reg' = IF sk = NoSkill
                  THEN [NoOp EXCEPT !.op = "CallTool", !.name = name, !.err = ErrNotFound]
                  ELSE IF ~sk[1].executable
                  THEN [NoOp EXCEPT !.op = "CallTool", !.name = name, !.isError = TRUE,
                                    !.text = NotExecutable]
                  ELSE IF ~executor
                  THEN [NoOp EXCEPT !.op = "CallTool", !.name = name, !.isError = TRUE,
                                    !.text = NoExecutor]
                  ELSE [NoOp EXCEPT !.op = "CallTool", !.name = name, !.executed = TRUE]
    /\ UNCHANGED <<store, executor>>
    /\ UNCHANGED nonRegistryVars

\* Server.ListPromptData: one prompt for every active skill.
ListPromptData ==
    /\ reg' = [NoOp EXCEPT !.op = "ListPromptData", !.names = ActiveSkills]
    /\ UNCHANGED <<store, executor>>
    /\ UNCHANGED nonRegistryVars

\* Server.GetPromptData: the prompt of the skill, if it is active.
GetPromptData(name) ==
    /\ LET sk == GetSkill(name)
       IN  reg' = IF sk = NoSkill
                  THEN [NoOp EXCEPT !.op = "GetPromptData", !.name = name, !.err = ErrNotFound]
                  ELSE IF sk[1].state # StateActive
                  THEN [NoOp EXCEPT !.op = "GetPromptData", !.name = name, !.err = NotActive]
                  ELSE [NoOp EXCEPT !.op = "GetPromptData", !.name = name, !.names = {name}]
    /\ UNCHANGED <<store, executor>>
    /\ UNCHANGED nonRegistryVars

RegistryStart(executors) ==
    /\ store = [n \in StoredNames |-> NoSkill]
    /\ executor \in executors
    /\ reg = NoOp

(***************************************************************************)
(* Merged workflow output: Executor.assembleOutputMerged.                  *)
(***************************************************************************)
MergeWorkflow == << "step-a", "step-b", "step-c" >>

MergeStepIds == {MergeWorkflow[i] : i \in 1..Len(MergeWorkflow)}

\* What the tool of each step answers, when it answers something.
StepText == [id \in MergeStepIds |->
                IF id = "step-a" THEN "first" ELSE IF id = "step-b" THEN "second" ELSE "third"]

\* Output.Include may name the steps in any order, more than once, and may
\* name a step the workflow does not have.
IncludeIds == MergeStepIds \cup {"step-x"}

IncludeLists == UNION {[1..n -> IncludeIds] : n \in 0..MaxInclude}

MergeStepResults(id) == [Result : {"", StepText[id]}, IsError : BOOLEAN]

NoStepResult == << >>
NotAssembled == << >>
MergeSeparator == "\n\n---\n\n"

\* strings.Join(parts, MergeSeparator), as the sequence of its pieces.
RECURSIVE Join(_)
Join(parts) ==
    IF Len(parts) <= 1 THEN parts
    ELSE << Head(parts), MergeSeparator >> \o Join(Tail(parts))

RECURSIVE MergedParts(_, _, _, _)
\* The loop of assembleOutputMerged over the steps it is given, in order.
MergedParts(steps, includeSet, results, skip) ==
    IF steps = << >> THEN << >>
    ELSE LET id == Head(steps)
             rest == MergedParts(Tail(steps), includeSet, results, skip)
         IN  IF id \in skip THEN rest
             ELSE IF includeSet # {} /\ id \notin includeSet THEN rest
             ELSE IF results[id] # NoStepResult /\ ~results[id][1].IsError
                     /\ results[id][1].Result # ""
                  THEN << results[id][1].Result >> \o rest
                  ELSE rest

IncludeSet(include) == {include[i] : i \in 1..Len(include)}

\* (mutant) the parts are collected in the order in which the steps finished.
assembleOutputMergedAsFinished(sk, results, skip) ==
    Join(MergedParts(morder, IncludeSet(sk.Include), results, skip))

assembleOutputMerged(sk, results, skip) ==
    Join(MergedParts(sk.Workflow, IncludeSet(sk.Include), results, skip))

MergePending(id) == id \in MergeStepIds /\ \A i \in 1..Len(morder) : morder[i] # id

\* A step finishes with a result that is recorded (success, or an error
\* with on_error: continue).
StepRecorded(id, result) ==
    /\ MergePending(id)
    /\ mresult = NotAssembled
    /\ msteps' = [msteps EXCEPT ![id] = << result >>]
    /\ morder' = Append(morder, id)
    /\ UNCHANGED <<mskill, mskipped, mresult>>
    /\ UNCHANGED nonMergeVars

\* A step finishes without a result being recorded.
StepNotRecorded(id) ==
    /\ MergePending(id)
    /\ mresult = NotAssembled
    /\ morder' = Append(morder, id)
    /\ UNCHANGED <<mskill, msteps, mskipped, mresult>>
    /\ UNCHANGED nonMergeVars

\* A step is skipped (condition false, or on_error: skip).
StepSkipped(id) ==
    /\ MergePending(id)
    /\ mresult = NotAssembled
    /\ mskipped' = mskipped \cup {id}
    /\ morder' = Append(morder, id)
    /\ UNCHANGED <<mskill, msteps, mresult>>
    /\ UNCHANGED nonMergeVars

\* Execute assembles the output once every level has been run.
AssembleOutput ==
    /\ \A id \in MergeStepIds : ~MergePending(id)
    /\ mresult = NotAssembled
    /\ mresult' = << assembleOutputMerged(mskill, msteps, mskipped) >>
    /\ UNCHANGED <<mskill, msteps, mskipped, morder>>
    /\ UNCHANGED nonMergeVars

MergeStart(includes) ==
    /\ mskill \in [Workflow : {MergeWorkflow}, Include : includes]
    /\ msteps = [id \in MergeStepIds |-> NoStepResult]
    /\ mskipped = {}
    /\ morder = << >>
    /\ mresult = NotAssembled

(***************************************************************************)
(* Transport client: initialize, tools and refresh_tools.                  *)
(***************************************************************************)
SkillIds == {"skill-a", "skill-b", "skill-c"}

\* The tool lists a peer may advertise: no id twice, at most MaxSkills ids.
AdvertisedLists ==
    {l \in UNION {[1..n -> SkillIds] : n \in 0..MaxSkills} :
        \A i, j \in 1..Len(l) : i # j => l[i] # l[j]}

\* How a fetch of the tool list ends when the peer is reachable.
FetchOutcomes == {"ok", "malformed"}

RefreshingTools == "refreshing tools"
Initializing == "initializing"

NoClientCall == [op |-> "", err |-> "", before |-> << >>]

\* The fetch of the peer's tool list: the list, or nothing when it failed.
Fetch(outcome) == IF peerUp /\ outcome = "ok" THEN << card >> ELSE << >>

\* (mutant) a failed refresh leaves the cache empty.
RefreshedClearing(fetched) == IF fetched = << >> THEN << >> ELSE fetched[1]

\* The cache after refresh_tools: the fetched list, or the cache as it was.
Refreshed(fetched) == IF fetched = << >> THEN ctools ELSE fetched[1]

\* The peer changes what it advertises.
PeerAdvertises(list) ==
    /\ list # card
    /\ card' = list
    /\ UNCHANGED <<peerUp, ctools, cinit, clast>>
    /\ UNCHANGED nonClientVars

\* The peer goes away or comes back.
PeerToggles ==
    /\ peerUp' = ~peerUp
    /\ UNCHANGED <<card, ctools, cinit, clast>>
    /\ UNCHANGED nonClientVars

\* initialize: fetch and cache the tool list; a no-op once initialized;
\* after a failure the next call starts again.
Initialize(outcome) ==
    /\ LET fetched == Fetch(outcome)
       IN  IF cinit
           THEN /\ clast' = [op |-> "Initialize", err |-> "", before |-> ctools]
                /\ UNCHANGED <<ctools, cinit>>
           ELSE IF fetched = << >>
           THEN /\ clast' = [op |-> "Initialize", err |-> Initializing, before |-> ctools]
                /\ UNCHANGED <<ctools, cinit>>
           ELSE /\ clast' = [op |-> "Initialize", err |-> "", before |-> ctools]
                /\ ctools' = fetched[1]
                /\ cinit' = TRUE
    /\ UNCHANGED <<card, peerUp>>
    /\ UNCHANGED nonClientVars

\* refresh_tools: fetch the tool list again.
RefreshTools(outcome) ==
    /\ cinit
    /\ LET fetched == Fetch(outcome)
       IN  /\ ctools' = Refreshed(fetched)
           /\ clast' = [op |-> "RefreshTools",
                        err |-> IF fetched = << >> THEN RefreshingTools ELSE "",
                        before |-> ctools]
    /\ UNCHANGED <<card, peerUp, cinit>>
    /\ UNCHANGED nonClientVars

ClientStart(cards) ==
    /\ card \in cards
    /\ peerUp = TRUE
    /\ ctools = << >>
    /\ cinit = FALSE
    /\ clast = NoClientCall

(***************************************************************************)
(* Peer-agent adapter: call_tool, polling, and the task as a tool result.  *)
(***************************************************************************)
TaskStateWorking == "working"
TaskStateCompleted == "completed"
TaskStateFailed == "failed"
TaskStateCancelled == "canceled"
TaskStateRejected == "rejected"

TerminalStates == {TaskStateCompleted, TaskStateFailed, TaskStateCancelled, TaskStateRejected}

TaskStates == TerminalStates \cup {TaskStateWorking}

RoleUser == "user"
RoleAgent == "agent"

NewTextPart(text) == [type |-> "text", text |-> text]
FilePart == [type |-> "file", text |-> ""]

\* The messages a task may hold: what the user sent, answers of the agent,
\* and answers of the agent with a part that is not text.
PeerMessages ==
    { [role |-> RoleUser, parts |-> << NewTextPart("user input") >>],
      [role |-> RoleAgent, parts |-> << NewTextPart("response 1") >>],
      [role |-> RoleAgent, parts |-> << NewTextPart("response 2") >>],
      [role |-> RoleAgent, parts |-> << FilePart, NewTextPart("text content") >>],
      [role |-> RoleAgent, parts |-> << FilePart >>] }

PeerArtifacts == { << >>, << [id |-> "art-1", parts |-> << NewTextPart("artifact text") >>] >> }

PeerTasks ==
    [state : TaskStates,
     message : {"", "boom"},
     messages : UNION {[1..n -> PeerMessages] : n \in 0..MaxMessages},
     artifacts : PeerArtifacts]

NoTask == << >>

TaskCompleted == "Task completed"
WaitingForCompletion == "waiting for completion"

NoToolResult == [isError |-> FALSE, content |-> << >>]

\* The texts of the text parts, in order.
RECURSIVE TextsOf(_)
TextsOf(parts) ==
    IF parts = << >> THEN << >>
    ELSE (IF Head(parts).type = "text" THEN << Head(parts).text >> ELSE << >>)
         \o TextsOf(Tail(parts))

\* The texts of the agent's messages, then those of the artifacts.
RECURSIVE AgentTexts(_)
AgentTexts(messages) ==
    IF messages = << >> THEN << >>
    ELSE (IF Head(messages).role = RoleAgent THEN TextsOf(Head(messages).parts) ELSE << >>)
         \o AgentTexts(Tail(messages))

RECURSIVE ArtifactTexts(_)
ArtifactTexts(artifacts) ==
    IF artifacts = << >> THEN << >>
    ELSE TextsOf(Head(artifacts).parts) \o ArtifactTexts(Tail(artifacts))

ExtractedText(task) == AgentTexts(task.messages) \o ArtifactTexts(task.artifacts)

\* (mutant) every terminal state but completed is an error result.
a2aResultToMCPResultStrict(task) ==
    IF task = NoTask THEN [isError |-> FALSE, content |-> << TaskCompleted >>]
    ELSE IF task[1].state = TaskStateFailed
    THEN [isError |-> TRUE, content |-> << task[1].message >>]
    ELSE [isError |-> task[1].state \in {TaskStateCancelled, TaskStateRejected},
          content |-> IF ExtractedText(task[1]) = << >> THEN << TaskCompleted >>
                      ELSE ExtractedText(task[1])]

\* a2aResultToMCPResult: only a failed task is an error result, carrying
\* the status message; any other carries the extracted text, or a default.
a2aResultToMCPResult(task) ==
    IF task = NoTask THEN [isError |-> FALSE, content |-> << TaskCompleted >>]
    ELSE IF task[1].state = TaskStateFailed
    THEN [isError |-> TRUE, content |-> << task[1].message >>]
    ELSE [isError |-> FALSE,
          content |-> IF ExtractedText(task[1]) = << >> THEN << TaskCompleted >>
                      ELSE ExtractedText(task[1])]

\* What call_tool does with the peer's answer: poll on, or return its result.
PeerAnswered(task) ==
    /\ atask' = task
    /\ IF task # NoTask /\ task[1].state \notin TerminalStates
       THEN /\ apc' = "polling"
            /\ UNCHANGED aresult
       ELSE /\ apc' = "done"
            /\ aresult' = a2aResultToMCPResult(task)

\* call_tool: the message is sent and the peer answers with a task or none.
AdapterCallTool(task) ==
    /\ apc = "idle"
    /\ PeerAnswered(task)
    /\ UNCHANGED nonAdapterVars

\* One poll of the task's status.
AdapterPoll(task) ==
    /\ apc = "polling"
    /\ PeerAnswered(<< task >>)
    /\ UNCHANGED nonAdapterVars

\* The poll fails or the caller's deadline is reached.
AdapterPollFails ==
    /\ apc = "polling"
    /\ apc' = "failed"
    /\ aresult' = [isError |-> TRUE, content |-> << WaitingForCompletion >>]
    /\ UNCHANGED atask
    /\ UNCHANGED nonAdapterVars

AdapterStart ==
    /\ atask = NoTask
    /\ apc = "idle"
    /\ aresult = NoToolResult

(***************************************************************************)
(* REST API of the registry: skill create, update, delete and state change, *)
(* each followed by refreshRegistryRouter.                                  *)
(***************************************************************************)
\* The requests that net/http serves at the same time.
Handlers == {"h1", "h2"}

HandlerIdle == [pc |-> "idle", has |-> FALSE]

\* Store.HasContent: the store holds something.
HasContent == \E n \in StoredNames : store[n] # NoSkill

\* The handler has changed the store and goes on to refreshRegistryRouter.
Changed(h) ==
    /\ hpc' = [hpc EXCEPT ![h] = [pc |-> "refresh", has |-> FALSE]]
    /\ overlapped' = (overlapped \/ \E o \in Handlers \ {h} : hpc[o].pc # "idle")

\* The handler answers with an error and leaves everything as it was.
RequestRefused == UNCHANGED <<store, hpc, overlapped>>

\* POST /api/registry/skills: 409 when the name is taken.
handleCreateSkill(h, name, sk) ==
    /\ hpc[h].pc = "idle"
    /\ IF store[name] # NoSkill THEN RequestRefused
       ELSE /\ store' = [store EXCEPT ![name] = << sk >>]
            /\ Changed(h)
    /\ UNCHANGED registered
    /\ UNCHANGED nonApiVars

\* PUT /api/registry/skills/{name}: 404 when there is no such skill.
handleUpdateSkill(h, name, sk) ==
    /\ hpc[h].pc = "idle"
    /\ IF store[name] = NoSkill THEN RequestRefused
       ELSE /\ store' = [store EXCEPT ![name] = << sk >>]
            /\ Changed(h)
    /\ UNCHANGED registered
    /\ UNCHANGED nonApiVars

\* DELETE /api/registry/skills/{name}: 500 when the store cannot delete it.
handleDeleteSkill(h, name) ==
    /\ hpc[h].pc = "idle"
    /\ IF store[name] = NoSkill THEN RequestRefused
       ELSE /\ store' = [store EXCEPT ![name] = NoSkill]
            /\ Changed(h)
    /\ UNCHANGED registered
    /\ UNCHANGED nonApiVars

\* POST /api/registry/skills/{name}/activate and /disable.
handleRegistrySkillStateChange(h, name, action) ==
    /\ hpc[h].pc = "idle"
    /\ IF store[name] = NoSkill THEN RequestRefused
       ELSE /\ store' = [store EXCEPT ![name] =
                            << [store[name][1] EXCEPT !.state =
                                   IF action = "activate" THEN StateActive
                                   ELSE StateDisabled] >>]
            /\ Changed(h)
    /\ UNCHANGED registered
    /\ UNCHANGED nonApiVars

\* refreshRegistryRouter, lines 531-532: the store is reloaded and asked
\* whether it has content.
refreshRegistryRouterCheck(h) ==
    /\ hpc[h].pc = "refresh"
    /\ hpc' = [hpc EXCEPT ![h] = [pc |-> "checked", has |-> HasContent]]
    /\ UNCHANGED <<store, registered, overlapped>>
    /\ UNCHANGED nonApiVars

\* refreshRegistryRouter, lines 532-537: AddClient or RemoveClient on what
\* was found, then the router's refresh; the handler writes its response.
refreshRegistryRouterAct(h) ==
    /\ hpc[h].pc = "checked"
    /\ registered' = hpc[h].has
    /\ hpc' = [hpc EXCEPT ![h] = HandlerIdle]
    /\ UNCHANGED <<store, overlapped>>
    /\ UNCHANGED nonApiVars

ApiStart ==
    /\ registered = FALSE
    /\ hpc = [h \in Handlers |-> HandlerIdle]
    /\ overlapped = FALSE

\* The components added after these, each at rest but the one named.
LaterStart(own) ==
    /\ (own = "router" \/ RouterStart({IdleNames}))
    /\ (own = "registry" \/ RegistryStart({TRUE}))
    /\ (own = "merge" \/ MergeStart({<< >>}))
    /\ (own = "client" \/ ClientStart({<< >>}))
    /\ AdapterStart
    /\ ApiStart

\* The components added after the four above, each at rest.
OthersStart == EntryStart({IdleConfig}) /\ SseStart /\ LaterStart("")

IdleWorkflow ==
    CHOOSE w \in Workflows :
        \A i \in DOMAIN w : w[i].dependsOn = {} /\ w[i].onError = "" /\ w[i].condition = ""

ExecStart(workflows) ==
    /\ skill \in workflows
    /\ epc = "loop"
    /\ levelIdx = 0
    /\ stepMap = EmptyMap
    /\ skipped = EmptyMap
    /\ stepResults = << >>
    /\ executable = << >>
    /\ outputs = << >>
    /\ gstate = [id \in IdSet |-> "none"]
    /\ sem = 0
    /\ seen = EmptyMap
    /\ status = "completed"
    /\ cancelled = FALSE
    /\ ret = NoReturn
    /\ calls = << >>

InitExec == ExecStart(Workflows) /\ PipeStart /\ AclStart /\ RetryStart({IdleStep}) /\ OthersStart

NextExec ==
    \/ StartLevel
    \/ \E id \in IdSet : StepBegin(id)
    \/ \E id \in IdSet, outcome \in ToolOutcomes : StepEnd(id, outcome)
    \/ JoinLevel
    \/ Cancel

SpecExec == InitExec /\ [][NextExec]_vars

InitPipe == ExecStart({IdleWorkflow}) /\ PipeStart /\ AclStart /\ RetryStart({IdleStep}) /\ OthersStart

ReaderStep == ReadLine \/ \E cause \in {"eof", "error", "cancel"} : ReaderExit(cause)

NextPipe ==
    \/ \E c \in Calls : Register(c)
    \/ \E c \in Calls : Send(c)
    \/ \E c \in Calls : Receive(c)
    \/ \E c \in Calls, why \in {"timeout", "cancelled"} : GiveUp(c, why)
    \/ \E id \in served \ replied : PeerReply(id)
    \/ \E line \in {StrayLine, NoiseLine} \cup {ReplyLine(id) : id \in replied} : PeerJunk(line)
    \/ PeerClose
    \/ StreamError
    \/ CancelReader
    \/ ReadLine
    \/ \E cause \in {"eof", "error", "cancel"} : ReaderExit(cause)

SpecPipe == InitPipe /\ [][NextPipe]_vars

\* The scheduler runs the reader task and a caller blocked on a ready channel;
\* nothing obliges a deadline or a cancellation to fire.
FairSpecPipe ==
    /\ SpecPipe
    /\ WF_vars(ReaderStep)
    /\ \A c \in Calls : WF_vars(Receive(c))

InitAcl == ExecStart({IdleWorkflow}) /\ PipeStart /\ AclStart /\ RetryStart({IdleStep}) /\ OthersStart

NextAcl ==
    \/ \E agent \in Agents \ DOMAIN agentSelectors, selectors \in SelectorLists :
          RegisterAgent(agent, selectors)
    \/ \E query, header \in AgentNames : OpenSession(query, header)
    \/ handleToolsList
    \/ \E full \in CallNames, outcome \in RouteOutcomes : handleToolsCall(full, outcome)

SpecAcl == InitAcl /\ [][NextAcl]_vars

InitRetry == ExecStart({IdleWorkflow}) /\ PipeStart /\ AclStart /\ RetryStart(RetrySteps) /\ OthersStart

NextRetry ==
    \/ AttemptCall
    \/ \E outcome \in ToolOutcomes : AttemptReturn(outcome)
    \/ RetryCancel
    \/ TimerFire
    \/ SelectResume

SpecRetry == InitRetry /\ [][NextRetry]_vars

InitEntry ==
    ExecStart({IdleWorkflow}) /\ PipeStart /\ AclStart /\ RetryStart({IdleStep})
        /\ EntryStart(EntryConfigs) /\ SseStart /\ LaterStart("")

NextEntry ==
    \/ \E name \in SkillNames : Execute(name)
    \/ CallTool
    \/ ExecuteReturn

SpecEntry == InitEntry /\ [][NextEntry]_vars

InitSse ==
    ExecStart({IdleWorkflow}) /\ PipeStart /\ AclStart /\ RetryStart({IdleStep})
        /\ EntryStart({IdleConfig}) /\ SseStart /\ LaterStart("")

NextSse ==
    \/ \E id \in SessionIds : ServeHTTP(id)
    \/ \E id \in SessionIds : SessionDone(id)
    \/ \E id \in SessionIds, req \in Requests : HandleMessage(id, req)
    \/ \E n \in 1..MaxPosts : HandleMessageReply(n)
    \/ \E req \in Requests : ServeMCP(req)

SpecSse == InitSse /\ [][NextSse]_vars

\* Every component above at rest, but the later one named.
RestStart(own) ==
    ExecStart({IdleWorkflow}) /\ PipeStart /\ AclStart /\ RetryStart({IdleStep})
        /\ EntryStart({IdleConfig}) /\ SseStart /\ LaterStart(own)

InitRouter == RestStart("router") /\ RouterStart(RouterConfigs)

NextRouter ==
    \E full \in RouterCallNames, outcome \in RouteOutcomes : RouteToolCall(full, outcome)

SpecRouter == InitRouter /\ [][NextRouter]_vars

InitRegistry == RestStart("registry") /\ RegistryStart(BOOLEAN)

NextRegistry ==
    \/ \E name \in StoredNames, sk \in StoredSkills : SaveSkill(name, sk)
    \/ \E name \in StoredNames : DeleteSkill(name)
    \/ ServerTools
    \/ \E name \in StoredNames : ServerCallTool(name)
    \/ ListPromptData
    \/ \E name \in StoredNames : GetPromptData(name)

SpecRegistry == InitRegistry /\ [][NextRegistry]_vars

InitMerge == RestStart("merge") /\ MergeStart(IncludeLists)

NextMerge ==
    \/ \E id \in MergeStepIds : \E result \in MergeStepResults(id) : StepRecorded(id, result)
    \/ \E id \in MergeStepIds : StepNotRecorded(id)
    \/ \E id \in MergeStepIds : StepSkipped(id)
    \/ AssembleOutput

SpecMerge == InitMerge /\ [][NextMerge]_vars

InitClient == RestStart("client") /\ ClientStart(AdvertisedLists)

NextClient ==
    \/ \E list \in AdvertisedLists : PeerAdvertises(list)
    \/ PeerToggles
    \/ \E outcome \in FetchOutcomes : Initialize(outcome)
    \/ \E outcome \in FetchOutcomes : RefreshTools(outcome)

SpecClient == InitClient /\ [][NextClient]_vars

InitAdapter == RestStart("adapter")

NextAdapter ==
    \/ \E task \in {NoTask} \cup {<< t >> : t \in PeerTasks} : AdapterCallTool(task)
    \/ \E task \in PeerTasks : AdapterPoll(task)
    \/ AdapterPollFails

SpecAdapter == InitAdapter /\ [][NextAdapter]_vars

InitApi == RestStart("api")

NextApi ==
    \/ \E h \in Handlers, name \in StoredNames, sk \in StoredSkills :
          handleCreateSkill(h, name, sk)
    \/ \E h \in Handlers, name \in StoredNames, sk \in StoredSkills :
          handleUpdateSkill(h, name, sk)
    \/ \E h \in Handlers, name \in StoredNames : handleDeleteSkill(h, name)
    \/ \E h \in Handlers, name \in StoredNames, action \in {"activate", "disable"} :
          handleRegistrySkillStateChange(h, name, action)
    \/ \E h \in Handlers : refreshRegistryRouterCheck(h)
    \/ \E h \in Handlers : refreshRegistryRouterAct(h)

SpecApi == InitApi /\ [][NextApi]_vars

Init == InitExec
Next == NextExec
Spec == SpecExec

(***************************************************************************)
(* Vocabulary of the properties of the executor                            *)
(***************************************************************************)
Range(seq) == {seq[i] : i \in DOMAIN seq}

ToolFailure == executeStepWithRetry("err").err

\* The steps a step transitively depends on.
RECURSIVE Ancestors(_, _)
Ancestors(wf, id) ==
    LET deps == StepAt(wf, id).dependsOn
    IN  deps \cup UNION {Ancestors(wf, d) : d \in deps}

TransitiveDependents(wf, id) == {t \in IdSet : id \in Ancestors(wf, t)}

EffectivePolicy(id) ==
    IF StepAt(skill, id).onError = "" THEN "fail" ELSE StepAt(skill, id).onError

\* The step's tool call failed and the level of the step has been joined.
ToolFailed(id) ==
    \E i \in DOMAIN stepResults :
        /\ stepResults[i].id = id
        /\ stepResults[i].status = "failed"
        /\ stepResults[i].error = ToolFailure

FailedUnder(id, policy) == ToolFailed(id) /\ EffectivePolicy(id) = policy

\* The step was recorded as skipped with the given reason.
RecordedSkipped(id, reason) ==
    \E i \in DOMAIN stepResults :
        /\ stepResults[i].id = id
        /\ stepResults[i].status = "skipped"
        /\ stepResults[i].skipReason = reason

\* The goroutine of the step has been started on the step.
Started(id) == id \in DOMAIN seen

Invoked(id) == id \in Range(calls)

Returned == epc = "done"

RanToTheEnd == Returned /\ ret.kind = "result" /\ ret.status # "failed"

TypeExec == epc \in {"loop", "wait", "done"}

(***************************************************************************)
(* Properties of the workflow executor                                     *)
(***************************************************************************)

\* C5: when a step's tool call fails under on_error = fail (also the policy
\* when on_error is unset), the workflow stops in the level of that step
\* with status failed: no step of a later DAG level is started or invoked,
\* and Execute returns an error result.
C5_FailHaltsWorkflow ==
    \A id \in IdSet :
        FailedUnder(id, "fail") =>
            /\ Returned
            /\ status = "failed"
            /\ ret = [kind |-> "result", status |-> "failed", isError |-> TRUE]
            /\ levelIdx = LevelOf(skill, id)
            /\ \A t \in IdSet :
                  LevelOf(skill, t) > LevelOf(skill, id) =>
                      /\ gstate[t] = "none"
                      /\ ~Started(t)
                      /\ ~Invoked(t)

\* A step without on_error failed and a later level exists that never ran.
C5_Witness ==
    \E id \in IdSet, t \in IdSet :
        /\ StepAt(skill, id).onError = ""
        /\ FailedUnder(id, "fail")
        /\ LevelOf(skill, t) > LevelOf(skill, id)
        /\ Returned
        /\ ret.isError

\* C6 (as stated): when a step fails under on_error = skip, each of its
\* transitive dependents is marked skipped with the reason
\* `dependency '<id>' failed` naming that failed step and is never invoked,
\* and the steps that were not skipped still run (in a run that is not
\* cancelled).
C6_ReasonNamesTheFailedStep ==
    \A id \in IdSet :
        (FailedUnder(id, "skip") /\ ~cancelled) =>
            /\ \A d \in TransitiveDependents(skill, id) :
                  /\ d \in DOMAIN skipped
                  /\ skipped[d] = DependencyFailed(id)
                  /\ ~Invoked(d)
            /\ RanToTheEnd => \A t \in IdSet \ DOMAIN skipped : Started(t)

\* A step that ran and ended with the "skip" policy: it failed under
\* on_error = skip, its condition was false, or the workflow was cancelled.
SkipSource(id) ==
    \/ FailedUnder(id, "skip")
    \/ RecordedSkipped(id, "condition evaluated to false")
    \/ RecordedSkipped(id, "workflow cancelled")

\* C6 (amended): when a step fails under on_error = skip, each of its
\* transitive dependents is marked skipped and never started or invoked; the
\* reason is `dependency '<x>' failed` for a step x the dependent transitively
\* depends on that failed under skip or was itself skipped when it ran, and x
\* is the failed step when that is the only such step.  No other step is
\* marked skipped, and in a workflow that runs to its end every step that is
\* not marked skipped was started.
C6_ReasonNamesASkippedAncestor ==
    \A id \in IdSet :
        FailedUnder(id, "skip") =>
            /\ \A d \in TransitiveDependents(skill, id) :
                  /\ d \in DOMAIN skipped
                  /\ ~Invoked(d)
                  /\ ~Started(d)
                  /\ \E x \in Ancestors(skill, d) :
                        SkipSource(x) /\ skipped[d] = DependencyFailed(x)
                  /\ {x \in Ancestors(skill, d) : SkipSource(x)} = {id}
                        => skipped[d] = DependencyFailed(id)
                  /\ RanToTheEnd => RecordedSkipped(d, skipped[d])
            /\ \A t \in DOMAIN skipped :
                  SkipSource(t) \/ \E x \in Ancestors(skill, t) : SkipSource(x)
            /\ RanToTheEnd => \A t \in IdSet \ DOMAIN skipped : Started(t)

\* The failed step heads a chain: its dependent's dependent is skipped in its
\* name, and an independent step was invoked.
C6_Witness ==
    \E id \in IdSet, d \in IdSet, t \in IdSet :
        /\ FailedUnder(id, "skip")
        /\ d \in TransitiveDependents(skill, id)
        /\ id \notin StepAt(skill, d).dependsOn
        /\ RecordedSkipped(d, DependencyFailed(id))
        /\ RanToTheEnd

\* Two steps failed under skip and share a dependent.
C6_WitnessShared ==
    \E id \in IdSet, x \in IdSet, d \in IdSet :
        /\ id # x
        /\ FailedUnder(id, "skip")
        /\ FailedUnder(x, "skip")
        /\ {id, x} \subseteq StepAt(skill, d).dependsOn
        /\ RanToTheEnd

\* C7: if a step fails under on_error = skip and no step halts the workflow,
\* the final workflow status is partial, not completed.
C7_SkipFailureIsPartial ==
    \A id \in IdSet :
        (FailedUnder(id, "skip") /\ RanToTheEnd) => ret.status = "partial"

\* C8: when a step's tool call fails under on_error = continue, a step result
\* with is_error = true is stored for it; the step and its dependents are not
\* marked skipped on its account, a dependent that is started finds
\* steps.<id>.is_error = true in its template context (a dependent whose
\* condition reads it goes on to its tool call), and in a workflow that runs
\* to its end every dependent that is not marked skipped was started.
C8_ContinueStoresError ==
    \A id \in IdSet :
        FailedUnder(id, "continue") =>
            /\ id \in DOMAIN stepMap
            /\ stepMap[id] = NewStepResult(ToolFailure, TRUE)
            /\ id \notin DOMAIN skipped
            /\ \A d \in IdSet :
                  id \in StepAt(skill, d).dependsOn =>
                      /\ d \in DOMAIN skipped => skipped[d] # DependencyFailed(id)
                      /\ Started(d) =>
                            /\ id \in DOMAIN seen[d].steps
                            /\ seen[d].steps[id].isError
                            /\ StepAt(skill, d).condition = id => Invoked(d)
                      /\ (RanToTheEnd /\ d \notin DOMAIN skipped) => Started(d)

\* A dependent whose condition is steps.<id>.is_error was invoked after the
\* step failed under continue.
C8_Witness ==
    \E id \in IdSet, d \in IdSet :
        /\ FailedUnder(id, "continue")
        /\ id \in StepAt(skill, d).dependsOn
        /\ StepAt(skill, d).condition = id
        /\ Invoked(d)

\* C9: a step goroutine exists, and so a step's tool is invoked, only after
\* the earlier DAG levels have been joined: every step of an earlier level
\* has finished and been processed, and every step the invoked step depends
\* on has run to completion.
C9_LevelsJoinedBeforeNext ==
    \A id \in IdSet :
        gstate[id] # "none" =>
            /\ \A t \in IdSet :
                  LevelOf(skill, t) < LevelOf(skill, id) =>
                      /\ gstate[t] \in {"none", "done"}
                      /\ \E i \in DOMAIN stepResults : stepResults[i].id = t
            /\ Invoked(id) => \A d \in StepAt(skill, id).dependsOn : gstate[d] = "done"

\* A step with two dependencies is running.
C9_Witness ==
    \E id \in IdSet :
        /\ gstate[id] = "running"
        /\ Cardinality(StepAt(skill, id).dependsOn) = 2

\* C10: the template context a step is given holds the inputs and exactly
\* the step results stored for steps of strictly earlier DAG levels (the
\* result of every such step that succeeded or failed under continue), and
\* never the result of a step of its own level.
C10_ContextIsEarlierLevels ==
    \A k \in DOMAIN seen :
        LET earlier == {t \in IdSet : LevelOf(skill, t) < LevelOf(skill, k)}
        IN  /\ seen[k].inputs = Args
            /\ seen[k].steps = [t \in (DOMAIN stepMap) \cap earlier |-> stepMap[t]]
            /\ \A t \in IdSet :
                  LevelOf(skill, t) = LevelOf(skill, k) => t \notin DOMAIN seen[k].steps
            /\ \A i \in DOMAIN stepResults :
                  LET t == stepResults[i].id
                  IN  /\ (t \in earlier /\ stepResults[i].status = "success")
                         => (t \in DOMAIN seen[k].steps /\ ~seen[k].steps[t].isError)
                      /\ (t \in earlier /\ FailedUnder(t, "continue"))
                         => (t \in DOMAIN seen[k].steps /\ seen[k].steps[t].isError)

\* Three steps share a level with two semaphore tokens: one has finished with
\* a result and the other two are running, so one of them took its snapshot
\* after that result existed.
C10_Witness ==
    \E j \in IdSet :
        /\ \A t \in IdSet : LevelOf(skill, t) = 0
        /\ gstate[j] = "done"
        /\ \E i \in DOMAIN outputs : outputs[i].ser.id = j /\ outputs[i].result # << >>
        /\ \A t \in IdSet \ {j} : gstate[t] = "running" /\ Started(t)

\* The level of the step has been joined and its result recorded.
Joined(id) == \E i \in DOMAIN stepResults : stepResults[i].id = id

RecordedFailed(id, err) ==
    \E i \in DOMAIN stepResults :
        /\ stepResults[i].id = id
        /\ stepResults[i].status = "failed"
        /\ stepResults[i].error = err

\* The step was started and its condition refers to a step that has no
\* result in the context the step was given: the evaluation fails.
ConditionErrored(id) ==
    /\ Started(id)
    /\ StepAt(skill, id).condition # ""
    /\ StepAt(skill, id).condition \notin DOMAIN seen[id].steps

\* The step was started and its condition evaluated to false.
ConditionWasFalse(id) ==
    /\ Started(id)
    /\ StepAt(skill, id).condition \in DOMAIN seen[id].steps
    /\ ~seen[id].steps[StepAt(skill, id).condition].isError

\* C14: when the evaluation of a step's condition raises an error the step's
\* tool is not invoked and, at the join of its level, the workflow halts with
\* status failed, whatever the step's on_error policy: Execute returns the
\* failed result and no later level is started.
C14_ConditionErrorHalts ==
    \A id \in IdSet :
        ConditionErrored(id) =>
            /\ ~Invoked(id)
            /\ Joined(id) =>
                  /\ RecordedFailed(id, ConditionEvaluation)
                  /\ Returned
                  /\ status = "failed"
                  /\ ret = [kind |-> "result", status |-> "failed", isError |-> TRUE]
                  /\ levelIdx = LevelOf(skill, id)
                  /\ id \notin DOMAIN stepMap
                  /\ \A t \in IdSet : LevelOf(skill, t) > LevelOf(skill, id) => ~Started(t)

\* A condition error under skip or continue, with a later level left unrun.
C14_Witness ==
    \E id \in IdSet, t \in IdSet :
        /\ ConditionErrored(id)
        /\ Joined(id)
        /\ StepAt(skill, id).onError \in {"skip", "continue"}
        /\ LevelOf(skill, t) > LevelOf(skill, id)
        /\ ret.status = "failed"

\* C15: a step whose condition evaluates to false never has its tool
\* invoked, is recorded skipped with reason "condition evaluated to false"
\* when its level is joined, stores no result, and does not fail the
\* workflow: a failed workflow has another step that failed.
C15_FalseConditionSkips ==
    \A id \in IdSet :
        ConditionWasFalse(id) =>
            /\ ~Invoked(id)
            /\ Joined(id) =>
                  /\ RecordedSkipped(id, ConditionFalse)
                  /\ id \in DOMAIN skipped
                  /\ skipped[id] = ConditionFalse
                  /\ id \notin DOMAIN stepMap
                  /\ status = "failed" =>
                        \E t \in IdSet \ {id}, i \in DOMAIN stepResults :
                            stepResults[i].id = t /\ stepResults[i].status = "failed"

\* A false condition in a workflow that ran to the end as completed.
C15_Witness ==
    \E id \in IdSet :
        /\ ConditionWasFalse(id)
        /\ Joined(id)
        /\ RanToTheEnd
        /\ ret.status = "completed"
        /\ \E t \in IdSet \ {id} : Invoked(t) /\ LevelOf(skill, t) >= LevelOf(skill, id)

(***************************************************************************)
(* Pipe-style client: fail-fast and drain.                                 *)
(***************************************************************************)
GiveUpResults == {"timeout", "cancelled"}

\* The request of call c was sent and the peer has produced no reply to it.
Outstanding(c) == callState[c] = "waiting" /\ callID[c] \notin replied

\* C1: when the southbound stream closes while the reader is running and a
\* sent request has no reply, the call returns, and it returns the
\* "connection lost" error unless its own deadline or cancellation fired
\* first. Nothing obliges a deadline to fire (FairSpecPipe gives it no
\* fairness), so the return is owed to the reader's drain alone.
C1_FailFastOnStreamClose ==
    \A c \in Calls :
        (Outstanding(c) /\ stdoutClosed /\ reader = "running")
            ~> (/\ callState[c] = "returned"
                /\ callResult[c] \in {ConnectionLost} \cup GiveUpResults)

C1_Witness ==
    \E c \in Calls :
        /\ callState[c] = "returned"
        /\ callResult[c] = ConnectionLost
        /\ callID[c] \in served \ replied
        /\ stdoutClosed
        /\ exitCause = "eof"

\* C2: the step in which the reader task exits (EOF, read error or
\* cancellation) completes every request then in the pending map with
\* "connection lost" and leaves the pending map empty.
C2_ReaderExitDrains ==
    [][(reader = "running" /\ reader' = "exited")
         => /\ exitCause' \in {"eof", "error", "cancel"}
            /\ responses' = EmptyMap
            /\ \A id \in DOMAIN responses : respCh'[responses[id]] = ConnectionLost]_vars

C2_Witness ==
    /\ reader = "exited"
    /\ exitCause = "cancel"
    /\ responses = EmptyMap
    /\ \A c \in Calls : respCh[c] = ConnectionLost /\ callState[c] = "waiting"

(***************************************************************************)
(* Agent ACL.                                                              *)
(***************************************************************************)
\* What a glob denotes, stated without recursion: the name can be cut into
\* one piece per glob character, "*" taking a piece of any length, "?" a piece
\* of one character, a literal the piece that is that character.
GlobDenotes(g, t) ==
    \E cut \in [0..Len(g) -> 0..Len(t)] :
        /\ cut[0] = 0
        /\ cut[Len(g)] = Len(t)
        /\ \A i \in 1..Len(g) :
              /\ cut[i - 1] <= cut[i]
              /\ g[i] # "*" => cut[i] = cut[i - 1] + 1
              /\ g[i] \notin {"*", "?"} => t[cut[i]] = g[i]

\* The selectors permit the tool.
Permits(selectors, server, name) ==
    \E i \in DOMAIN selectors :
        /\ selectors[i].server = server
        /\ \/ selectors[i].tools = << >>
           \/ \E j \in DOMAIN selectors[i].tools : GlobDenotes(selectors[i].tools[j], name)

\* The request is a tools/call of a tool its session's agent may not use.
DeniedCall(req) ==
    /\ req.method = "tools/call"
    /\ req.agent \in DOMAIN agentSelectors
    /\ LET parsed == ParsePrefixedTool(req.name)
       IN  parsed.ok /\ ~Permits(agentSelectors[req.agent], parsed.server, parsed.name)

\* C3: a tools/call of a tool the session's agent is not permitted to use is
\* answered with a tool result whose is_error is true, never with a JSON-RPC
\* error (and the call is not routed).
C3_DenialIsToolError ==
    DeniedCall(request) =>
        /\ response.rpcError = ""
        /\ response.isError = TRUE
        /\ routed = NoRoute

C3_Witness ==
    /\ DeniedCall(request)
    /\ response.text = AccessDenied
    /\ LET parsed == ParsePrefixedTool(request.name)
       IN  /\ InCatalog(parsed.server, parsed.name)
           /\ \E i \in DOMAIN agentSelectors[request.agent] :
                 agentSelectors[request.agent][i].server = parsed.server

\* The catalog tools the selectors permit, as prefixed names.
PermittedCatalog(selectors) ==
    { PrefixTool(Catalog[i].server, Catalog[i].name) :
        i \in {k \in DOMAIN Catalog : Permits(selectors, Catalog[k].server, Catalog[k].name)} }

AllowedAttempts ==
    IF rstep.retry.set /\ rstep.retry.maxAttempts >= 1 THEN rstep.retry.maxAttempts ELSE 1

\* C11: the tool of a step is invoked at most max_attempts times (once when
\* there is no retry block or max_attempts < 1), and a successful attempt is
\* the last one: the loop has returned its result and nothing follows it.
C11_AtMostMaxAttempts ==
    /\ Len(rcalls) <= AllowedAttempts
    /\ Len(routcomes) <= AllowedAttempts
    /\ \A i \in DOMAIN routcomes :
          routcomes[i] = "ok" =>
              /\ i = Len(routcomes)
              /\ rpc = "returned"
              /\ rret.err = ""
              /\ rret.attempts = i

C11_Witness ==
    /\ rstep.retry.set
    /\ rstep.retry.maxAttempts = MaxAttempts
    /\ Len(rcalls) = MaxAttempts
    /\ routcomes[Len(routcomes)] = "ok"
    /\ rpc = "returned"

\* C12 (as claimed): whatever the backoff, once the outer context is
\* cancelled the retry loop makes no further attempt; in particular no tool
\* invocation follows a wait that was reached with the context already
\* cancelled.
C12_NoAttemptAfterCancelledWait ==
    \A i \in DOMAIN rcalls : ~rcalls[i].waitCancelled

\* The step's policy, as the skill declares it.
DeclaredPolicy == IF rstep.onError = "" THEN "fail" ELSE rstep.onError

\* executeStepFull applied the step's on_error policy to the error err.
PolicyApplied(err) ==
    /\ rout.ser.status = "failed"
    /\ rout.ser.error = err
    /\ DeclaredPolicy = "fail" => rout.halt
    /\ DeclaredPolicy = "skip" => ~rout.halt /\ rout.policy = "skip" /\ rout.result = << >>
    /\ DeclaredPolicy = "continue" =>
          /\ ~rout.halt
          /\ rout.policy = "continue"
          /\ rout.result = <<[result |-> err, isError |-> TRUE]>>

\* The loop returned after its last allowed attempt ended in a tool-reported error.
ExhaustedOnToolError ==
    /\ rpc = "returned"
    /\ Len(routcomes) = AllowedAttempts
    /\ routcomes[Len(routcomes)] = "isError"

\* An attempt that ended in a tool-reported error is never returned as the
\* loop's success, and unless the context is cancelled the loop gives up only
\* after the last allowed attempt, whatever failed the earlier ones.
ToolErrorFailsTheAttempt ==
    /\ (rpc = "returned" /\ routcomes[Len(routcomes)] = "isError") => rret.err # ""
    /\ (rpc = "returned" /\ rret.err # "" /\ ~rctxDone) => Len(routcomes) = AllowedAttempts

ExecuteCalled == elast'.op = "execute"

Refused(err) == elast'.err = err /\ frames' = frames

OnStack(name) == \E i \in DOMAIN frames : frames[i] = name

\* C16: executing a skill whose name is already in the call stack of the
\* context fails with the circular-dependency error and starts no execution,
\* so that no step of it runs; no skill is ever twice among the running ones.
C16_RevisitedSkillIsRefused ==
    /\ [](\A i, j \in DOMAIN frames : frames[i] = frames[j] => i = j)
    /\ [][(ExecuteCalled /\ OnStack(elast'.name)) => Refused(CircularDependency)]_vars

\* A skill is called again two levels down, not by itself, and refused.
C16_Witness ==
    /\ elast.op = "execute"
    /\ elast.err = CircularDependency
    /\ Len(frames) >= 2
    /\ frames[1] = elast.name

\* C17 as stated: the nesting depth never exceeds the maximum, and Execute
\* entered with a call stack of the maximum length fails with the
\* depth-exceeded error.
C17_DepthExceededAtMaxDepth ==
    /\ [](Len(frames) <= MaxDepth)
    /\ [][(ExecuteCalled /\ Len(frames) >= MaxDepth) => Refused(DepthExceeded)]_vars

\* C17, amended: the nesting depth never exceeds the maximum, and Execute
\* entered with a call stack of the maximum length starts no execution (so
\* no tool is invoked by it): it fails with the circular-dependency error
\* if the skill is already in the stack, with the depth-exceeded error
\* otherwise.
C17_DepthNeverExceedsMax ==
    /\ [](Len(frames) <= MaxDepth)
    /\ [][(ExecuteCalled /\ Len(frames) >= MaxDepth) =>
            Refused(IF OnStack(elast'.name) THEN CircularDependency ELSE DepthExceeded)]_vars

\* The stack is full and a skill that is not in it is refused for the depth.
C17_Witness ==
    /\ elast.op = "execute"
    /\ elast.err = DepthExceeded
    /\ Len(frames) = MaxDepth
    /\ ~OnStack(elast.name)

DuplicateId(wf) == \E i, j \in DOMAIN wf : i # j /\ wf[i].id = wf[j].id

MissingDependency(wf) ==
    \E i \in DOMAIN wf : \E d \in wf[i].dependsOn : d \notin {wf[j].id : j \in DOMAIN wf}

\* Some chain of steps, each depending on the next, closes on itself.
DependencyCycle(wf) ==
    \E n \in 1..Len(wf) : \E path \in [1..n -> DOMAIN wf] :
        /\ \A k \in 1..(n - 1) : wf[path[k + 1]].id \in wf[path[k]].dependsOn
        /\ wf[path[1]].id \in wf[path[n]].dependsOn

BadPlan(wf) == DuplicateId(wf) \/ MissingDependency(wf) \/ DependencyCycle(wf)

\* An input that is required, has no default and is not among the arguments.
MissingRequired(inputs, arguments) ==
    \E n \in DOMAIN inputs : inputs[n] = "required" /\ n \notin arguments

\* The checks Execute makes before it validates the inputs all pass.
ReachesValidation(name) ==
    /\ ~OnStack(name)
    /\ Len(frames) < MaxDepth
    /\ AgentSkill(name).workflow # << >>

\* The checks Execute makes before it plans the workflow all pass.
ReachesPlanning(name) ==
    /\ ReachesValidation(name)
    /\ ~MissingRequired(AgentSkill(name).inputs, Arguments(name))

BadPlanCalled == ExecuteCalled /\ BadPlan(AgentSkill(elast'.name).workflow)

\* C18 as stated: a workflow with a missing dependency, a duplicate id or a
\* cycle is rejected with the planning error.
C18_BadPlanIsPlanningError ==
    [][BadPlanCalled => Refused(BuildingDAG)]_vars

\* C18, amended: a workflow with a missing dependency, a duplicate id or a
\* cycle never runs (no step's tool is invoked for it): Execute fails, with
\* the planning error when the call-stack, depth, empty-workflow and input
\* checks that come first all pass, with the error of the first of those
\* that fails otherwise; and only such a workflow gets the planning error.
C18_BadPlanNeverRuns ==
    /\ [](\A i \in DOMAIN frames : ~BadPlan(AgentSkill(frames[i]).workflow))
    /\ [](elast.op = "tool" => ~BadPlan(AgentSkill(elast.name).workflow))
    /\ [][BadPlanCalled =>
            /\ frames' = frames
            /\ elast'.err # ""
            /\ ReachesPlanning(elast'.name) => elast'.err = BuildingDAG]_vars
    /\ [][(ExecuteCalled /\ elast'.err = BuildingDAG) =>
            BadPlan(AgentSkill(elast'.name).workflow)]_vars

\* Two steps that depend on each other, nothing missing, nothing repeated:
\* the planning error.
C18_Witness ==
    /\ elast.op = "execute"
    /\ elast.name = "s0"
    /\ elast.err = BuildingDAG
    /\ Len(ewf) = 2
    /\ DependencyCycle(ewf)
    /\ ~MissingDependency(ewf)
    /\ ~DuplicateId(ewf)

MissingRequiredCalled ==
    ExecuteCalled /\ MissingRequired(AgentSkill(elast'.name).inputs, Arguments(elast'.name))

\* C19 as stated: when a required input without a default is absent from
\* the arguments, execution fails with the input-validation error.
C19_MissingInputIsValidationError ==
    [][MissingRequiredCalled => Refused(InputValidation)]_vars

\* C19, amended: when a required input without a default is absent from
\* the arguments, the skill never runs (no step's tool is invoked): Execute
\* fails, with the input-validation error when the call-stack, depth and
\* empty-workflow checks that come first all pass, with the error of the
\* first of those that fails otherwise; an input with a default, or an
\* optional one, may be absent.
C19_MissingInputNeverRuns ==
    /\ [](\A i \in DOMAIN frames :
            ~MissingRequired(AgentSkill(frames[i]).inputs, Arguments(frames[i])))
    /\ [](elast.op = "tool" =>
            ~MissingRequired(AgentSkill(elast.name).inputs, Arguments(elast.name)))
    /\ [][MissingRequiredCalled =>
            /\ frames' = frames
            /\ elast'.err # ""
            /\ ReachesValidation(elast'.name) => elast'.err = InputValidation]_vars
    /\ [][(ExecuteCalled /\ elast'.err = InputValidation) =>
            MissingRequired(AgentSkill(elast'.name).inputs, Arguments(elast'.name))]_vars

\* "x" is required, has no default and is not given, while "y" is given.
C19_Witness ==
    /\ elast.op = "execute"
    /\ elast.name = "s0"
    /\ elast.err = InputValidation
    /\ einputs["x"] = "required"
    /\ eargs = {"y"}
    /\ frames = << >>

(***************************************************************************)
(* SSE: where the reply to a POSTed request goes                           *)
(***************************************************************************)
Answered == post.status \notin {NoStatus, StatusNotFound}

\* C20: the reply to a JSON-RPC request POSTed to the message path of a
\* session is the last message event on the stream of that session, and the
\* POST itself answers 202 Accepted with an empty body.
C20_PostIsAcceptedEmptyReplyOnStream ==
    [][(post' # post /\ Answered') =>
        /\ post'.status = StatusAccepted
        /\ post'.body = NoBody
        /\ stream'[post'.session] = Append(stream[post'.session], MessageEvent(Response(post'.req)))
        /\ \A other \in SessionIds \ {post'.session} : stream'[other] = stream[other]]_vars

(***************************************************************************)
(* SSE: order of the replies on one stream, the id of a reply              *)
(***************************************************************************)
\* C21: the replies on the stream of a session stand in the order in which
\* their requests were POSTed to the message path of that session, also
\* when the handling of the requests overlaps.
C21_RepliesInSubmissionOrder ==
    \A id \in SessionIds : \A i, j \in DOMAIN written[id] :
        i < j => written[id][i] < written[id][j]

\* The reply in an HTTP body answers the request of that POST with its id.
BodyKeepsId(r) == r.status = StatusOK => r.body[1].id = r.req.id

C23_QueryParamThenHeader ==
    request.method = "GET" =>
        /\ request.query # "" => sessionAgent = request.query
        /\ (request.query = "" /\ request.header # "") => sessionAgent = request.header
        /\ (request.query = "" /\ request.header = "") => sessionAgent = ""

\* Both are supplied and differ: the session has the query parameter's.
C23_Witness ==
    /\ request.method = "GET"
    /\ request.query = "agent1"
    /\ request.header = "agent2"
    /\ sessionAgent = "agent1"

WholeCatalog == [i \in DOMAIN Catalog |-> PrefixTool(Catalog[i].server, Catalog[i].name)]

\* C24: a session without an agent gets the whole catalog from tools/list,
\* and its tools/call of any catalog tool is forwarded to the tool's client
\* and not answered with a denial, whatever the registered agents may use.
C24_NoAgentSeesAndCallsEverything ==
    /\ (request.method = "tools/list" /\ request.agent = "") =>
          response = ListResponse(WholeCatalog)
    /\ \A i \in DOMAIN Catalog :
          (/\ request.method = "tools/call"
           /\ request.agent = ""
           /\ request.name = WholeCatalog[i]) =>
              /\ routed = [client |-> Catalog[i].server, tool |-> Catalog[i].name]
              /\ response.text # AccessDenied

\* A session without an agent has called a tool that the registered agent,
\* which has selectors, may not use.
C24_Witness ==
    /\ request.method = "tools/call"
    /\ request.agent = ""
    /\ routed # NoRoute
    /\ response = ToolResult(FALSE, "called")
    /\ "agent1" \in DOMAIN agentSelectors
    /\ agentSelectors["agent1"] # << >>
    /\ ~Permits(agentSelectors["agent1"], routed.client, routed.tool)

(***************************************************************************)
(* Router: the owner of a listed name, one forward per call                *)
(***************************************************************************)
Listed(name) == \E i \in DOMAIN RouterTools : RouterTools[i] = name

\* C25: a tools/call on a prefixed name s__t that tools/list returned is
\* dispatched to the client whose name is s, with the unprefixed name t.
C25_ListedNameReachesItsClient ==
    (rcall.name # << >> /\ Listed(rcall.name)) =>
        rcall.forwards = << [client |-> rclient, tool |-> rtool] >>

Stored(name) == name \in StoredNames /\ store[name] # NoSkill

Inactive(name) == Stored(name) /\ store[name][1].state # StateActive

\* C28: calling the tool of a skill that is not active returns an error
\* result saying that the skill is not active, and executes nothing.
C28_InactiveSkillIsNotExecuted ==
    (reg.op = "CallTool" /\ Inactive(reg.name)) =>
        /\ reg.err = ""
        /\ reg.isError
        /\ reg.text = NotActive
        /\ ~reg.executed

\* C29: prompts/list names exactly the active skills, and prompts/get
\* returns a skill exactly when it is active: a draft or a disabled skill
\* is neither listed nor returned.
C29_PromptsOnlyForActiveSkills ==
    /\ reg.op = "ListPromptData" =>
          reg.names = {n \in StoredNames : Stored(n) /\ ~Inactive(n)}
    /\ reg.op = "GetPromptData" =>
          /\ Inactive(reg.name) => (reg.names = {} /\ reg.err # "")
          /\ (Stored(reg.name) /\ ~Inactive(reg.name)) => (reg.names = {reg.name} /\ reg.err = "")

\* A draft skill is asked for and refused while the other one is active.
C29_Witness ==
    /\ reg.op = "GetPromptData"
    /\ reg.err = NotActive
    /\ store[reg.name][1].state = StateDraft
    /\ \E n \in StoredNames \ {reg.name} : Stored(n) /\ ~Inactive(n)

(***************************************************************************)
(* Merged workflow output                                                  *)
(***************************************************************************)
\* The steps whose text belongs to the merged output.
Merged(id, include) ==
    /\ id \notin mskipped
    /\ msteps[id] # NoStepResult
    /\ ~msteps[id][1].IsError
    /\ msteps[id][1].Result # ""
    /\ (include # << >> => \E i \in 1..Len(include) : include[i] = id)

\* The wanted text: the texts of the merged steps, as declared.
MergedText(include) ==
    LET kept == SelectSeq(mskill.Workflow, LAMBDA id : Merged(id, include))
    IN  Join([i \in 1..Len(kept) |-> msteps[kept[i]][1].Result])

SameSteps(a, b) == IncludeSet(a) = IncludeSet(b)

\* C30: the merged output is the texts of the steps that were not skipped,
\* did not error and are not empty, restricted to output.include when it is
\* given, joined in the order of the workflow's declaration; an include list
\* naming the same steps in another order gives the same text, and so does
\* any order in which the steps finished.
C30_MergedInDeclarationOrder ==
    mresult # NotAssembled =>
        /\ mresult[1] = MergedText(mskill.Include)
        /\ \A other \in IncludeLists :
              SameSteps(other, mskill.Include) =>
                 assembleOutputMerged([mskill EXCEPT !.Include = other], msteps, mskipped)
                    = mresult[1]

\* Two steps are merged though they finished and were included in the
\* opposite order, while a third one was left out.
C30_Witness ==
    /\ mresult # NotAssembled
    /\ Len(mresult[1]) = 3
    /\ Len(mskill.Include) = 2
    /\ \E i, j \in 1..Len(mskill.Workflow) :
          /\ i < j
          /\ mskill.Include = << mskill.Workflow[j], mskill.Workflow[i] >>
          /\ \E m, n \in 1..Len(morder) :
                m < n /\ morder[m] = mskill.Workflow[j] /\ morder[n] = mskill.Workflow[i]

(***************************************************************************)
(* Transport client: a failed refresh                                      *)
(***************************************************************************)
RefreshFailed == clast.op = "RefreshTools" /\ clast.err # ""

\* C27: when refresh_tools fails, the cached tool list is exactly the list
\* that was cached before the call.
C27_FailedRefreshKeepsCache == RefreshFailed => ctools = clast.before

\* A refresh failed while the peer advertised another list than the one
\* cached, and the cache is not empty.
C27_Witness ==
    /\ RefreshFailed
    /\ clast.before # << >>
    /\ clast.before # card

(***************************************************************************)
(* Workflow executor: siblings of a failing step, the parallel bound,       *)
(* cancellation, skip reasons, skipped or executed                          *)
(***************************************************************************)
DeclaredAt(id) == CHOOSE i \in DOMAIN StepIds : StepIds[i] = id

\* C32: when a step fails under the fail policy, no step declared after it
\* in the workflow has its tool invoked, whether it depends on the failing
\* step or shares its level.
C32_FailStopsLaterDeclaredSteps ==
    \A id \in IdSet, t \in IdSet :
        (FailedUnder(id, "fail") /\ DeclaredAt(id) < DeclaredAt(t)) => ~Invoked(t)

InProgress == {id \in IdSet : gstate[id] = "running"}

\* C36: at every moment the number of steps whose tool call is in progress
\* is at most the maximum parallel count; it is the number of semaphore
\* tokens held.
C36_AtMostMaxParallelInProgress ==
    /\ Cardinality(InProgress) <= MaxParallel
    /\ sem = Cardinality(InProgress)

\* As many calls as allowed are in progress and a step of the level waits.
C36_Witness ==
    /\ Cardinality(InProgress) = MaxParallel
    /\ \E id \in IdSet : gstate[id] = "spawned"
    /\ ~cancelled

WorkflowCancelled == CancelledOutput(skill[1], 0).ser.skipReason

\* The step was not executed: the workflow returned before its level, or the
\* step found the workflow cancelled when it was to run.
NotExecuted(id) == ~Joined(id) \/ RecordedSkipped(id, WorkflowCancelled)

\* C37: when the workflow is cancelled while some steps have not been
\* executed, Execute does not report the workflow as completed: it returns
\* the cancellation error or a status other than completed.
C37_CancelledIsNotCompleted ==
    (Returned /\ cancelled /\ \E id \in IdSet : NotExecuted(id)) =>
        (ret.kind = "error" \/ ret.status # "completed")

\* C38: a step is recorded skipped with reason `dependency '<id>' failed`
\* only if step <id> was executed and its tool call failed; the dependents
\* of a step that was skipped for a false condition or for the cancellation
\* of the workflow carry that reason.
C38_DependencyReasonNamesAFailedStep ==
    /\ \A d \in IdSet, x \in IdSet :
          RecordedSkipped(d, DependencyFailed(x)) => (Invoked(x) /\ ToolFailed(x))
    /\ \A x \in IdSet, d \in IdSet :
          (d \in TransitiveDependents(skill, x) /\ d \in DOMAIN skipped) =>
              /\ RecordedSkipped(x, ConditionFalse) => skipped[d] # DependencyFailed(x)
              /\ RecordedSkipped(x, WorkflowCancelled) => skipped[d] # DependencyFailed(x)

\* The step is in the skipped set on account of a step it depends on.
MarkedByAncestor(id) ==
    /\ id \in DOMAIN skipped
    /\ \E x \in Ancestors(skill, id) : skipped[id] = DependencyFailed(x)

RecordedOnce ==
    \A i, j \in DOMAIN stepResults : stepResults[i].id = stepResults[j].id => i = j

SkippedNeverRuns ==
    \A id \in IdSet :
        /\ MarkedByAncestor(id) =>
              /\ gstate[id] = "none"
              /\ ~Started(id)
              /\ ~Invoked(id)
              /\ id \notin DOMAIN stepMap
        /\ (\E i \in DOMAIN stepResults :
               stepResults[i].id = id /\ stepResults[i].status = "skipped") =>
              /\ ~Invoked(id)
              /\ id \notin DOMAIN stepMap

\* C40: in one execution every step is recorded at most once in the step
\* results and is skipped or executed, never both: a step that is in the
\* skipped set when its level starts gets no goroutine, its tool is never
\* invoked and it gets no entry in the step-result map.
C40_SkippedOrExecutedNeverBoth ==
    /\ []RecordedOnce
    /\ []SkippedNeverRuns
    /\ [][\A id \in IdSet :
             (id \in DOMAIN skipped /\ gstate[id] = "none") => gstate'[id] = "none"]_vars

\* A step was left out for its dependency while a step it does not depend
\* on was invoked, and the workflow ran to its end.
C40_Witness ==
    \E id \in IdSet, t \in IdSet :
        /\ t # id
        /\ MarkedByAncestor(id)
        /\ RecordedSkipped(id, skipped[id])
        /\ t \notin Ancestors(skill, id)
        /\ Invoked(t)
        /\ RanToTheEnd

(***************************************************************************)
(* Pipe-style client: late replies, delivery by id, one completion per call *)
(***************************************************************************)
GaveUp(c) == callState[c] = "returned" /\ callResult[c] \in GiveUpResults

\* The reader takes a line off the stream.
LineRead == stdout # << >> /\ stdout' = Tail(stdout)

\* C33: a call that ended by its deadline or by the caller's cancellation
\* has no entry in the pending map, and nothing that is read later (its
\* late reply included) completes it or changes what it returned.
C33_GivenUpCallIsForgotten ==
    /\ [](\A c \in Calls : GaveUp(c) => callID[c] \notin DOMAIN responses)
    /\ [][\A c \in Calls :
             GaveUp(c) => /\ respCh'[c] = respCh[c]
                          /\ callResult'[c] = callResult[c]
                          /\ callState'[c] = callState[c]
                          /\ (LineRead /\ Head(stdout) = ReplyLine(callID[c]))
                                => (responses' = responses /\ respCh' = respCh)]_vars

\* A call timed out before its reply was read; the reply came and has been
\* read since, while the other call was still pending.
C33_Witness ==
    \E c \in Calls, d \in Calls :
        /\ GaveUp(c)
        /\ respCh[c] = ""
        /\ callID[c] \in replied
        /\ stdout = << >>
        /\ reader = "running"
        /\ callState[d] = "waiting"
        /\ callID[d] \in DOMAIN responses

\* C34: the reader hands a response only to the pending entry whose key is
\* the id of the response, which is the entry of the call that sent that id,
\* and removes that entry; a line that is no response, or a response whose
\* id is not pending, completes no call and leaves the pending map as it is.
C34_ResponseGoesToItsId ==
    /\ [](\A id \in DOMAIN responses : callID[responses[id]] = id)
    /\ [][LineRead =>
            LET line == Head(stdout)
            IN  IF line.kind = "response" /\ line.id \in DOMAIN responses
                THEN /\ callID[responses[line.id]] = line.id
                     /\ respCh' = [respCh EXCEPT ![responses[line.id]] = "ok"]
                     /\ DOMAIN responses' = (DOMAIN responses) \ {line.id}
                     /\ \A id \in DOMAIN responses' : responses'[id] = responses[id]
                ELSE /\ responses' = responses
                     /\ respCh' = respCh]_vars

\* One call got its reply, a line that answers nothing has been read, and
\* the other call is still pending with nothing in its channel.
C34_Witness ==
    \E c \in Calls, d \in Calls :
        /\ respCh[c] = "ok"
        /\ junk > 0
        /\ stdout = << >>
        /\ callState[d] = "waiting"
        /\ callID[d] \in DOMAIN responses
        /\ respCh[d] = ""

\* C35: a completion channel receives at most one value, and only while it
\* is empty, so the reader never blocks on it; a call returns once, with its
\* reply or the drain's "connection lost" taken from its channel, or with
\* its own deadline or cancellation, and what it returned never changes.
C35_CompletedOnce ==
    /\ [][\A c \in Calls : respCh[c] # "" => respCh'[c] = respCh[c]]_vars
    /\ [][\A c \in Calls :
             callState[c] = "returned" =>
                 (callState'[c] = "returned" /\ callResult'[c] = callResult[c])]_vars
    /\ [](\A c \in Calls :
             callState[c] = "returned" =>
                 \/ callResult[c] \in GiveUpResults
                 \/ callResult[c] \in {"ok", ConnectionLost} /\ respCh[c] = callResult[c])
    /\ [](\A c \in Calls : respCh[c] # "" => callID[c] \notin DOMAIN responses)

\* The races: one call returned its deadline although its reply was already
\* in its channel, the other was completed by the drain.
C35_Witness ==
    \E c \in Calls, d \in Calls :
        /\ GaveUp(c)
        /\ respCh[c] = "ok"
        /\ callState[d] = "returned"
        /\ callResult[d] = ConnectionLost
        /\ reader = "exited"

(***************************************************************************)
(* Peer-agent adapter: terminal task states as tool results                *)
(***************************************************************************)
\* call_tool returned the result of a task in the given state.
ReturnedFor(state) == apc = "done" /\ atask # NoTask /\ atask[1].state = state

AgentSaid(text) ==
    \E i \in DOMAIN atask[1].messages :
        /\ atask[1].messages[i].role = RoleAgent
        /\ \E j \in DOMAIN atask[1].messages[i].parts :
              atask[1].messages[i].parts[j] = NewTextPart(text)

InContent(text) == \E i \in DOMAIN aresult.content : aresult.content[i] = text

\* C31: a completed task gives a non-error result, a failed task gives a
\* result with is_error = true, and a cancelled or rejected task gives a
\* non-error result that carries the agent's text: every text the agent
\* said, and nothing the user said.
C31_TerminalStateToToolResult ==
    /\ ReturnedFor(TaskStateCompleted) => ~aresult.isError
    /\ ReturnedFor(TaskStateFailed) => aresult.isError
    /\ \A state \in {TaskStateCancelled, TaskStateRejected} :
          ReturnedFor(state) =>
              /\ ~aresult.isError
              /\ aresult.content # << >>
              /\ \A text \in {"response 1", "response 2", "text content"} :
                    AgentSaid(text) <=> InContent(text)
              /\ ~InContent("user input")
              /\ ~InContent(atask[1].message) \/ atask[1].message = ""

\* A task ended rejected with a status message, after the user and the
\* agent had both spoken.
C31_Witness ==
    /\ ReturnedFor(TaskStateRejected)
    /\ atask[1].message = "boom"
    /\ AgentSaid("response 1")
    /\ \E i \in DOMAIN atask[1].messages : atask[1].messages[i].role = RoleUser
    /\ ~aresult.isError

(***************************************************************************)
(* REST API of the registry: the registry as a client of the router         *)
(***************************************************************************)
\* Every request has been answered.
Quiet == \A h \in Handlers : hpc[h].pc = "idle"

\* C39: after every skill create, update, delete or state change made
\* through the REST API, the registry is registered as a client of the
\* router if and only if the store has content.
C39_RegisteredIffContent == Quiet => (registered <=> HasContent)

\* The registration follows the store when the requests are handled one
\* after the other.
RegisteredIffContentInSequence ==
    (Quiet /\ ~overlapped) => (registered <=> HasContent)

====
